---------------------------- MODULE Spec2Model ----------------------------
(***************************************************************************)
(* Model of the tolentinox chat: the Socket.IO relay with its presence     *)
(* registry (server/index.ts as given in SETUP.md), the client's message   *)
(* admission pipeline (ChatRoomPage.handleSendMessage), its socket effect  *)
(* and its initial load, the messages table with its row-level policies    *)
(* and triggers (supabase/schema.sql), and the AuthProvider with its       *)
(* approval check (services/supabaseClient.ts).                            *)
(***************************************************************************)
EXTENDS Integers, Sequences, FiniteSets, TLC

(***************************************************************************)
(* Bounds of the model.                                                    *)
(***************************************************************************)
\* number of socket ids the transport hands out during a run
MaxConns == 3

\* number of chat pages (each one signed-in user's tab) that send messages
MaxClients == 2
\* number of messages sent during a run
MaxSubmits == 2
\* resolution of the clock: ticks per day
TicksPerDay == 20
\* number of rows the table can hold when a page loads it
MaxStored == 102
\* number of calls of signUp, signIn and signOut during a run
MaxAuthCalls == 1
\* number of notifications the auth client makes unasked during a run
MaxEvents == 1
\* number of calls of verifyApprovedEmail made on one Map
MaxLookups == 3

(***************************************************************************)
(* Constants of the program.                                               *)
(***************************************************************************)
\* allMessages.length > 50, allMessages.length - 50
MaxMessages == 50
\* INTERVAL '3 days'
TTLDays == 3
\* .limit(100)
HistoryLimit == 100
\* for (let i = 0; i < 5; i++) around getUser
MaxPolls == 5
\* const maxRetries = 5
MaxRetries == 5

SocketIds == 1..MaxConns
Clients == 1..MaxClients
\* the signed-in user of a chat page: auth.uid() of its requests
UserOf(c) == IF c % 2 = 1 THEN "u1" ELSE "u2"

(***************************************************************************)
(* Payloads.  interface UserSocket { userId; userName; userAvatar? }       *)
(* The handlers' payloads are taken within their declared types: every     *)
(* userData is an object, hence truthy in the disconnect handler's         *)
(* if (user).                                                              *)
(***************************************************************************)
UserSocket ==
    { [userId |-> "u1", userName |-> "Ann",   userAvatar |-> "none"],
      [userId |-> "u1", userName |-> "Annie", userAvatar |-> "a.png"],
      [userId |-> "u2", userName |-> "Bob",   userAvatar |-> "none"] }

\* the payload of message:send; the relay never looks inside it
ChatMessage ==
    { [id |-> "m1", userId |-> "u1", content |-> "hi"],
      [id |-> "m2", userId |-> "u2", content |-> "yo"] }

\* the payloads of typing:start and typing:stop
TypingStartData == { [userId |-> "u1", userName |-> "Ann"] }
TypingStopData  == { [userId |-> "u1"] }

VARIABLES
    attached,        \* socket ids whose transport session is live
    closed,          \* socket ids whose transport session was destroyed
    connectedUsers,  \* const connectedUsers = new Map<string, UserSocket>()
    dispatched,      \* the event the relay handled last: what it found and what it emitted
    joined,          \* history: the socket ids a user:join was handled for
    leftCount,       \* history: user:left events emitted, per socket they name
    relayed,         \* history: the messages of the pages in the order the relay handled them
    lost,            \* history: the packets to a page's socket that were in flight when it ended
    messages,        \* the rows of table messages
    now,             \* the clock: NOW() and new Date()
    nextId,          \* the next crypto.randomUUID()
    pc,              \* where each page's handleSendMessage stands
    messageData,     \* each page's messageData
    idsToDelete,     \* each page's idsToDelete
    inserted,        \* history: the rows in the table after each page's insert
    lastOp,          \* the step taken last, with what it read and emitted
    trimError,       \* history: a select or delete of a trim reported an error
    wired,           \* the pages whose socket is part of the model
    pageSocket,      \* each page's socket: the id of its live session, 0 when !socket.connected
    pageMessages,    \* each page's const [messages, setMessages] = useState<Message[]>([])
    loading,         \* the pages whose loadMessages has not resolved yet
    loaded,          \* per page: the response of its loadMessages read, while on its way
    pageProfile,     \* each page's const [profile, setProfile] = useState(user)
    reconnecting,    \* the pages whose socket lost its session: its Manager is reconnecting
    outbox,          \* per socket of a page: the events emitted and not yet handled by the relay
    inbox,           \* per socket of a page: the events emitted to it and not yet received
    approvedEmails,  \* the emails of the rows of table approved_emails
    users,           \* the rows of table users
    session,         \* the session the auth client holds (and persists), NoSession if none
    authState,       \* const [state, setState] = useState<AuthState>(...)
    mounted,         \* let mounted = true
    safetyTimeout,   \* the safetyTimeout timer is pending
    firstRender,     \* the provider has not rendered again since it mounted
    approvedEmailCache, \* the Map of the provider's first render and of its latest one
    tasks,           \* the calls in flight, each at its await
    lastAuth,        \* the step of the provider taken last, with what it returned
    authCalls,       \* history: the number of calls of signIn, signUp and signOut
    authEvents       \* history: the number of notifications the auth client made unasked

relayVars == <<attached, closed, connectedUsers, dispatched, joined, leftCount,
               relayed, lost>>
storeVars == <<messages, now, nextId, pc, messageData, idsToDelete, inserted,
               lastOp, trimError>>
pageVars == <<wired, pageSocket, pageMessages, loading, loaded, pageProfile,
              reconnecting>>
wireVars == <<outbox, inbox>>
authVars == <<approvedEmails, users, session, authState, mounted, safetyTimeout,
              firstRender, approvedEmailCache, tasks, lastAuth,
              authCalls, authEvents>>
vars == <<attached, closed, connectedUsers, dispatched, joined, leftCount,
          relayed, lost, messages, now, nextId, pc, messageData, idsToDelete, inserted,
          lastOp, trimError, wired, pageSocket, pageMessages, loading, loaded,
          pageProfile, reconnecting, outbox, inbox,
          approvedEmails, users, session, authState, mounted, safetyTimeout,
          firstRender, approvedEmailCache, tasks, lastAuth,
          authCalls, authEvents>>

(***************************************************************************)
(* A JavaScript Map, kept as the sequence of its entries in insertion      *)
(* order: set() replaces the value of a present key in place and appends   *)
(* an absent one, delete() removes the entry, values() iterates in order.  *)
(***************************************************************************)
MapKeys(m) == { m[i].key : i \in 1..Len(m) }

MapHas(m, k) == \E i \in 1..Len(m) : m[i].key = k

\* get() of a present key
MapGet(m, k) == m[CHOOSE i \in 1..Len(m) : m[i].key = k].value

\* faulty variant: a set() that appends without looking for the key
MapSetAppending(m, k, v) == Append(m, [key |-> k, value |-> v])

MapSet(m, k, v) ==
    IF MapHas(m, k)
    THEN [i \in 1..Len(m) |-> IF m[i].key = k THEN [key |-> k, value |-> v] ELSE m[i]]
    ELSE Append(m, [key |-> k, value |-> v])

\* faulty variant: a delete() that removes nothing
MapDeleteNothing(m, k) == m

MapDelete(m, k) == SelectSeq(m, LAMBDA e : e.key # k)

MapValues(m) == [i \in 1..Len(m) |-> m[i].value]

(***************************************************************************)
(* Emissions.  io.emit reaches every live socket, socket.broadcast.emit    *)
(* every live socket but the handler's own, socket.emit that socket only.  *)
(***************************************************************************)
Emission(ev, to, data) == [ev |-> ev, to |-> to, data |-> data]

\* faulty variant: io.emit written as socket.broadcast.emit
IoEmitToOthers(live, socket, ev, data) == Emission(ev, live \ {socket}, data)

IoEmit(live, socket, ev, data) == Emission(ev, live, data)

\* faulty variant: socket.broadcast.emit written as io.emit
SocketBroadcastToAll(live, socket, ev, data) == Emission(ev, live, data)

SocketBroadcastEmit(live, socket, ev, data) == Emission(ev, live \ {socket}, data)

\* faulty variant: socket.emit written as io.emit
SocketEmitToAll(live, socket, ev, data) == Emission(ev, live, data)

SocketEmit(live, socket, ev, data) == Emission(ev, {socket}, data)

\* an event as handled: the socket it came from and its payload, the registry
\* as the handler found it, and the emissions in the order they were made
Dispatched(ev, socket, data, out) ==
    [ev |-> ev, from |-> socket, data |-> data,
     registry |-> connectedUsers, out |-> out]

\* the user:left events among the emissions out that name socket
LeftEmitted(out, socket) ==
    Cardinality({ i \in 1..Len(out) :
                    out[i].ev = "user:left" /\ out[i].data.socketId = socket })

Emit(ev, socket, data, out) ==
    /\ dispatched' = Dispatched(ev, socket, data, out)
    /\ leftCount' = [s \in SocketIds |-> leftCount[s] + LeftEmitted(out, s)]

(***************************************************************************)
(* The wires between the pages' sockets and the relay.  Socket.IO keeps    *)
(* the order of the packets of one connection and delivers each at most    *)
(* once; the packets in flight when a connection ends are lost.            *)
(***************************************************************************)
Packet(ev, data) == [ev |-> ev, data |-> data]

\* the sockets that belong to a page of the model
PageSockets == { pageSocket[c] : c \in wired } \ {0}

\* the next packet of socket's outbox is this event
NextFrom(socket, ev) ==
    /\ outbox[socket] # << >>
    /\ Head(outbox[socket]).ev = ev

\* the handler has taken the event off the wire, if it came over one
Taken(socket, ev, data) ==
    [s \in SocketIds |->
        IF s = socket /\ NextFrom(s, ev) /\ Head(outbox[s]).data = data
        THEN Tail(outbox[s]) ELSE outbox[s]]

\* newSocket.on('message:received', ...): the one event of the relay a page
\* listens to; a packet of another event is dropped on arrival
Listened == {"message:received"}

\* the emissions out, each written to the wire of every recipient in order
RECURSIVE Written(_, _)
Written(boxes, out) ==
    IF out = << >> THEN boxes
    ELSE Written([s \in SocketIds |->
                     IF /\ s \in Head(out).to \cap PageSockets
                        /\ Head(out).ev \in Listened
                     THEN Append(boxes[s], Packet(Head(out).ev, Head(out).data))
                     ELSE boxes[s]],
                 Tail(out))

\* the pages whose socket is live
ConnectedPages == { c \in wired : pageSocket[c] # 0 }

\* a message:send handled while pages listen, with the pages whose sockets
\* were live when the relay handled it
Relayed(socket, ev, data) ==
    IF ev = "message:send" /\ wired # {}
    THEN Append(relayed, [message |-> data, pages |-> ConnectedPages])
    ELSE relayed

\* a handler that took its event off the wire and emitted out
Wire(socket, ev, data, out) ==
    /\ outbox' = Taken(socket, ev, data)
    /\ inbox' = Written(inbox, out)
    /\ relayed' = Relayed(socket, ev, data)
    /\ UNCHANGED lost

\* the packets of boxes[socket], by the page the socket belongs to
InFlight(boxes, socket) ==
    { <<c, boxes[socket][i].data>> :
        c \in { d \in wired : pageSocket[d] = socket }, i \in 1..Len(boxes[socket]) }

(***************************************************************************)
(* The relay's handlers.                                                   *)
(***************************************************************************)
\* the user of a page as its socket effect sends it
PageUser(c) ==
    [userId     |-> UserOf(c),
     userName   |-> IF UserOf(c) = "u1" THEN "Ann" ELSE "Bob",
     userAvatar |-> "none"]

\* const [profile, setProfile] = useState(user), kept in sync with user by
\* the effect of [user]
Profile(c) ==
    [name |-> PageUser(c).userName, profile_picture_url |-> PageUser(c).userAvatar]

\* the user:join packets a page's socket sends once its session is live.  On
\* the first connection only the socket's 'connect' handler runs.  After a lost
\* session the Manager's 'reconnect' fires when the transport is open again,
\* before the socket is connected: its user:join waits in the socket's send
\* buffer and is flushed when the session is acknowledged, and then 'connect'
\* fires and its handler emits user:join as well.
JoinsOnConnect(c) ==
    IF c \in reconnecting
    THEN << Packet("user:join", PageUser(c)), Packet("user:join", PageUser(c)) >>
    ELSE << Packet("user:join", PageUser(c)) >>

\* newSocket.on('connect', ...) and newSocket.io.on('reconnect', ...): the
\* session socket is the one of page c, or of a client outside the model (0).
\* A page stays mounted, so the end of its session is a loss of the transport.
Connect(c, socket) ==
    IF c = 0
    THEN UNCHANGED <<pageSocket, outbox, reconnecting>>
    ELSE /\ c \in wired
         /\ pageSocket[c] = 0
         /\ pageSocket' = [pageSocket EXCEPT ![c] = socket]
         /\ outbox' = [outbox EXCEPT ![socket] = JoinsOnConnect(c)]
         /\ reconnecting' = reconnecting \ {c}

\* io.on('connection', (socket) => ...): the transport assigns a fresh id (ids
\* are opaque, so they are numbered in the order of attachment) and the
\* handlers below are installed on the socket
Connection(socket) ==
    /\ socket = Cardinality(attached \cup closed) + 1
    /\ socket \in SocketIds
    /\ attached' = attached \cup {socket}
    /\ Emit("connection", socket, "none", << >>)
    /\ \E c \in {0} \cup Clients : Connect(c, socket)
    /\ UNCHANGED <<closed, connectedUsers, joined, relayed, lost>>
    /\ UNCHANGED <<wired, pageMessages, loading, loaded, pageProfile, inbox>>
    /\ UNCHANGED storeVars
    /\ UNCHANGED authVars

\* socket.on('user:join', (userData) => ...)
UserJoin(socket, userData) ==
    /\ socket \in attached
    /\ LET registered == MapSet(connectedUsers, socket, userData)
           announced == [userId     |-> userData.userId,
                         userName   |-> userData.userName,
                         userAvatar |-> userData.userAvatar,
                         socketId   |-> socket]
           onlineUsers == MapValues(registered)
           out == << IoEmit(attached, socket, "user:joined", announced),
                     SocketEmit(attached, socket, "users:online", onlineUsers) >>
       IN /\ connectedUsers' = registered
          /\ Emit("user:join", socket, userData, out)
          /\ Wire(socket, "user:join", userData, out)
    /\ joined' = joined \cup {socket}
    /\ UNCHANGED <<attached, closed>>
    /\ UNCHANGED pageVars
    /\ UNCHANGED storeVars
    /\ UNCHANGED authVars

\* faulty variant: the handler also answers the sender, who so gets the
\* message twice
MessageSendTwice(socket, message) ==
    /\ socket \in attached
    /\ LET out == << IoEmit(attached, socket, "message:received", message),
                     SocketEmit(attached, socket, "message:received", message) >>
       IN /\ Emit("message:send", socket, message, out)
          /\ Wire(socket, "message:send", message, out)
    /\ UNCHANGED <<attached, closed, connectedUsers, joined>>
    /\ UNCHANGED pageVars
    /\ UNCHANGED storeVars
    /\ UNCHANGED authVars

\* faulty variant: the handler drops a message whose id it has handled before
MessageSendOnce(socket, message) ==
    /\ socket \in attached
    /\ LET seen == \E i \in 1..Len(relayed) : relayed[i].message.id = message.id
           out == IF seen THEN << >>
                  ELSE << IoEmit(attached, socket, "message:received", message) >>
       IN /\ Emit("message:send", socket, message, out)
          /\ Wire(socket, "message:send", message, out)
    /\ UNCHANGED <<attached, closed, connectedUsers, joined>>
    /\ UNCHANGED pageVars
    /\ UNCHANGED storeVars
    /\ UNCHANGED authVars

\* socket.on('message:send', (message) => ...)
MessageSend(socket, message) ==
    /\ socket \in attached
    /\ LET out == << IoEmit(attached, socket, "message:received", message) >>
       IN /\ Emit("message:send", socket, message, out)
          /\ Wire(socket, "message:send", message, out)
    /\ UNCHANGED <<attached, closed, connectedUsers, joined>>
    /\ UNCHANGED pageVars
    /\ UNCHANGED storeVars
    /\ UNCHANGED authVars

\* socket.on('typing:start', (data) => ...)
TypingStart(socket, data) ==
    /\ socket \in attached
    /\ LET out == << SocketBroadcastEmit(attached, socket, "user:typing", data) >>
       IN /\ Emit("typing:start", socket, data, out)
          /\ Wire(socket, "typing:start", data, out)
    /\ UNCHANGED <<attached, closed, connectedUsers, joined>>
    /\ UNCHANGED pageVars
    /\ UNCHANGED storeVars
    /\ UNCHANGED authVars

\* socket.on('typing:stop', (data) => ...)
TypingStop(socket, data) ==
    /\ socket \in attached
    /\ LET out == << SocketBroadcastEmit(attached, socket, "user:stopped-typing", data) >>
       IN /\ Emit("typing:stop", socket, data, out)
          /\ Wire(socket, "typing:stop", data, out)
    /\ UNCHANGED <<attached, closed, connectedUsers, joined>>
    /\ UNCHANGED pageVars
    /\ UNCHANGED storeVars
    /\ UNCHANGED authVars

\* faulty variant: the handler announces the departure and keeps the entry
DisconnectHandlerKeeps(socket, remaining) ==
    IF MapHas(connectedUsers, socket)
    THEN LET user == MapGet(connectedUsers, socket)
             left == [userId   |-> user.userId,
                      userName |-> user.userName,
                      socketId |-> socket]
         IN [registry |-> connectedUsers,
             out      |-> << IoEmit(remaining, socket, "user:left", left) >>]
    ELSE [registry |-> connectedUsers, out |-> << >>]

\* faulty variant: the handler removes the entry and announces nothing
DisconnectHandlerSilent(socket, remaining) ==
    [registry |-> MapDelete(connectedUsers, socket), out |-> << >>]

\* faulty variant: the handler announces a departure without looking for an entry
DisconnectHandlerAnnounces(socket, remaining) ==
    LET left == [userId   |-> IF MapHas(connectedUsers, socket)
                              THEN MapGet(connectedUsers, socket).userId
                              ELSE "undefined",
                 userName |-> IF MapHas(connectedUsers, socket)
                              THEN MapGet(connectedUsers, socket).userName
                              ELSE "undefined",
                 socketId |-> socket]
    IN [registry |-> MapDelete(connectedUsers, socket),
        out      |-> << IoEmit(remaining, socket, "user:left", left) >>]

\* What the disconnect handler does to the registry and what it emits, the
\* socket having already left the server's set of live sockets (remaining).
DisconnectHandler(socket, remaining) ==
    IF MapHas(connectedUsers, socket)
    THEN LET user == MapGet(connectedUsers, socket)
             left == [userId   |-> user.userId,
                      userName |-> user.userName,
                      socketId |-> socket]
         IN [registry |-> MapDelete(connectedUsers, socket),
             out      |-> << IoEmit(remaining, socket, "user:left", left) >>]
    ELSE [registry |-> connectedUsers, out |-> << >>]

\* socket.on('disconnect', () => ...): fired by the transport when the session
\* ends, by a client disconnect() and by a network drop alike
Disconnect(socket) ==
    /\ socket \in attached
    /\ attached' = attached \ {socket}
    /\ closed' = closed \cup {socket}
    /\ LET handled == DisconnectHandler(socket, attached \ {socket})
       IN /\ connectedUsers' = handled.registry
          /\ Emit("disconnect", socket, "none", handled.out)
          /\ inbox' = [Written(inbox, handled.out) EXCEPT ![socket] = << >>]
    /\ outbox' = [outbox EXCEPT ![socket] = << >>]
    /\ lost' = lost \cup InFlight(inbox, socket)
    /\ UNCHANGED relayed
    /\ pageSocket' = [c \in Clients |->
                         IF pageSocket[c] = socket THEN 0 ELSE pageSocket[c]]
    /\ reconnecting' = reconnecting \cup { c \in Clients : pageSocket[c] = socket }
    /\ UNCHANGED joined
    /\ UNCHANGED <<wired, pageMessages, loading, loaded, pageProfile>>
    /\ UNCHANGED storeVars
    /\ UNCHANGED authVars

RelayInit ==
    /\ attached = {}
    /\ closed = {}
    /\ connectedUsers = << >>
    /\ dispatched = Dispatched("none", 0, "none", << >>)
    /\ joined = {}
    /\ leftCount = [s \in SocketIds |-> 0]
    /\ relayed = << >>
    /\ lost = {}

RelayNext ==
    \/ \E socket \in SocketIds : Connection(socket)
    \/ \E socket \in SocketIds, userData \in UserSocket : UserJoin(socket, userData)
    \/ \E socket \in SocketIds, message \in ChatMessage : MessageSend(socket, message)
    \/ \E socket \in SocketIds, data \in TypingStartData : TypingStart(socket, data)
    \/ \E socket \in SocketIds, data \in TypingStopData : TypingStop(socket, data)
    \/ \E socket \in SocketIds : Disconnect(socket)

(***************************************************************************)
(* Table messages with its row-level policies and its insert trigger.      *)
(***************************************************************************)
Row(id, uid, at) == [id |-> id, user_id |-> uid, created_at |-> at]

\* CREATE POLICY "Users can insert own messages" ... WITH CHECK (auth.uid() = user_id)
InsertPolicy(uid, row) == uid = row.user_id

\* CREATE POLICY "Users can delete own messages" ... USING (auth.uid() = user_id)
DeletePolicy(uid, row) == uid = row.user_id

\* DELETE FROM messages WHERE <the rows of target> issued as uid: the policy
\* hides the other rows from the statement, which deletes the rest silently
DeleteAs(uid, rows, target) ==
    rows \ { r \in target : DeletePolicy(uid, r) }

\* WHERE created_at < NOW() - INTERVAL '3 days'
OlderThanTTL(rows, t) ==
    { r \in rows : r.created_at < t - TTLDays * TicksPerDay }

\* auto_delete_old_messages(): the AFTER INSERT trigger; it is not SECURITY
\* DEFINER, so its DELETE runs as the inserting user, under the delete policy
AutoDeleteOldMessages(uid, rows, t) ==
    DeleteAs(uid, rows, OlderThanTTL(rows, t))

\* delete_old_messages(): SECURITY DEFINER, so its DELETE runs as the function's
\* owner, whom the policies of the table do not bind
DeleteOldMessages(rows, t) == rows \ OlderThanTTL(rows, t)

\* cleanup_messages(): the same DELETE ... RETURNING *, and the count of the
\* rows it deleted
CleanupMessages(rows, t) ==
    [rows          |-> rows \ OlderThanTTL(rows, t),
     deleted_count |-> Cardinality(OlderThanTTL(rows, t))]

\* supabase.from('messages').insert(row) issued as uid, the statement succeeding
InsertAs(uid, rows, row, t) ==
    AutoDeleteOldMessages(uid, rows \cup {row}, t)

\* .select('id, created_at').order('created_at', { ascending: true }) then
\* .slice(0, k): the k first rows of the ordered read.  Rows of equal
\* created_at come in an order the store does not fix, so this is the set of
\* the possible results.
Oldest(rows, k) ==
    IF k <= 0 THEN { {} }
    ELSE LET below(t) == { r \in rows : r.created_at < t }
             upto(t)  == { r \in rows : r.created_at <= t }
             tk == CHOOSE t \in { r.created_at : r \in rows } :
                       Cardinality(below(t)) < k /\ k <= Cardinality(upto(t))
             ties == upto(tk) \ below(tk)
         IN { below(tk) \cup S :
                S \in { X \in SUBSET ties : Cardinality(X) = k - Cardinality(below(tk)) } }

(***************************************************************************)
(* ChatRoomPage.handleSendMessage, one action per stretch of code between  *)
(* two awaits.                                                             *)
(***************************************************************************)
StartTime == MaxMessages
NoMessage(c) == Row(0, UserOf(c), 0)
TTLTicks == TTLDays * TicksPerDay

\* the readings of the clock: the start, a tick later, and three days after that
Times == { StartTime, StartTime + 1, StartTime + 1 + TTLTicks }

\* time goes by
ClockAdvances(t) ==
    /\ t > now
    /\ now' = t
    /\ lastOp' = [op |-> "clock"]
    /\ UNCHANGED <<messages, nextId, pc, messageData, idsToDelete, inserted, trimError>>
    /\ UNCHANGED relayVars
    /\ UNCHANGED authVars
    /\ UNCHANGED pageVars
    /\ UNCHANGED wireVars

\* the handler returns: its locals are gone
Return(c) ==
    /\ pc' = [pc EXCEPT ![c] = "idle"]
    /\ messageData' = [messageData EXCEPT ![c] = NoMessage(c)]
    /\ idsToDelete' = [idsToDelete EXCEPT ![c] = {}]
    /\ inserted' = [inserted EXCEPT ![c] = 0]

\* faulty variant: the emit skipped
EmitNothing(c, connected) == {}

\* if (socket?.connected) socket.emit('message:send', messageData)
EmitIfConnected(c, connected) ==
    IF connected THEN {messageData[c]} ELSE {}

\* faulty variant: the message never gets onto the wire
EmittedNowhere(c, sent) == outbox

\* socket.emit('message:send', messageData) on the wire of the page's socket,
\* for a page whose socket is part of the model
Emitted(c, sent) ==
    IF sent = {} \/ pageSocket[c] = 0 THEN outbox
    ELSE [outbox EXCEPT ![pageSocket[c]] =
             Append(@, Packet("message:send", CHOOSE m \in sent : TRUE))]

\* a non-blank newMessage of a signed-in user: messageData is built and the
\* insert is issued
HandleSendMessage(c) ==
    /\ pc[c] = "idle"
    /\ nextId <= MaxMessages + MaxSubmits
    /\ messageData' = [messageData EXCEPT ![c] = Row(nextId, UserOf(c), now)]
    /\ nextId' = nextId + 1
    /\ pc' = [pc EXCEPT ![c] = "insert"]
    /\ lastOp' = [op |-> "send", client |-> c, at |-> pc[c],
                  message |-> Row(nextId, UserOf(c), now), sent |-> {}]
    /\ UNCHANGED <<messages, now, idsToDelete, inserted, trimError>>
    /\ UNCHANGED relayVars
    /\ UNCHANGED authVars
    /\ UNCHANGED pageVars
    /\ UNCHANGED wireVars

\* faulty variant: the emit written after the if (!error) block, so that a
\* message whose insert failed is emitted all the same
InsertFailedThenEmits(c) ==
    [op |-> "insertFailed", client |-> c, at |-> pc[c],
     message |-> messageData[c], read |-> messages,
     sent |-> {messageData[c]}, cleared |-> FALSE, surfaced |-> FALSE]

\* the insert returned an error: if (!error) has no else, so nothing is
\* emitted, newMessage is not cleared, no error is set, thrown or returned
InsertFailed(c) ==
    [op |-> "insertFailed", client |-> c, at |-> pc[c],
     message |-> messageData[c], read |-> messages,
     sent |-> {}, cleared |-> FALSE, surfaced |-> FALSE]

\* faulty variant: the emit written before the try block of the trim
InsertedThenEmits(c) ==
    [op |-> "inserted", client |-> c, at |-> pc[c],
     message |-> messageData[c], sent |-> {messageData[c]}]

\* the insert succeeded: the handler enters the try block of the trim, having
\* emitted nothing yet
Inserted(c) ==
    [op |-> "inserted", client |-> c, at |-> pc[c],
     message |-> messageData[c], sent |-> {}]

\* const { error } = await supabase.from('messages').insert(...)
InsertResolves(c, error) ==
    /\ pc[c] = "insert"
    /\ IF error \/ ~InsertPolicy(UserOf(c), messageData[c])
       THEN /\ lastOp' = InsertFailed(c)
            /\ Return(c)
            /\ UNCHANGED messages
       ELSE /\ messages' = InsertAs(UserOf(c), messages, messageData[c], now)
            /\ pc' = [pc EXCEPT ![c] = "select"]
            /\ inserted' = [inserted EXCEPT ![c] = Cardinality(messages')]
            /\ lastOp' = Inserted(c)
            /\ UNCHANGED <<messageData, idsToDelete>>
    /\ UNCHANGED <<now, nextId, trimError>>
    /\ UNCHANGED relayVars
    /\ UNCHANGED authVars
    /\ UNCHANGED pageVars
    /\ UNCHANGED wireVars

\* allMessages.length > 50
ExceedsLimit(n) == n > MaxMessages

\* history: the step before was the read of page c's trim
JustRead(c) == lastOp.op = "selected" /\ lastOp.client = c

\* history: the step before ended a trim whose read and delete no other step
\* came between
RanQuietly == lastOp.op = "trimmed" /\ lastOp.quiet

\* const { data: allMessages, error: listError } = await supabase...select(...)
SelectResolves(c, listError, connected) ==
    /\ pc[c] = "select"
    /\ IF listError
       THEN /\ trimError' = TRUE
            /\ lastOp' = [op |-> "selectFailed", client |-> c, at |-> pc[c],
                          message |-> messageData[c], read |-> messages,
                          connected |-> connected, socket |-> pageSocket[c],
                          sent |-> EmitIfConnected(c, connected),
                          cleared |-> TRUE]
            /\ Return(c)
       ELSE /\ UNCHANGED trimError
            /\ IF ExceedsLimit(Cardinality(messages))
               THEN /\ \E D \in Oldest(messages, Cardinality(messages) - MaxMessages) :
                          idsToDelete' = [idsToDelete EXCEPT ![c] = { r.id : r \in D }]
                    /\ pc' = [pc EXCEPT ![c] = "delete"]
                    /\ lastOp' = [op |-> "selected", client |-> c, at |-> pc[c],
                                  message |-> messageData[c], sent |-> {},
                                  after |-> RanQuietly]
                    /\ UNCHANGED <<messageData, inserted>>
               ELSE /\ lastOp' = [op |-> "trimmed", client |-> c, at |-> pc[c],
                                  message |-> messageData[c],
                                  over |-> ExceedsLimit(inserted[c]),
                                  read |-> messages, deleted |-> {},
                                  quiet |-> TRUE, rerun |-> RanQuietly,
                                  connected |-> connected, socket |-> pageSocket[c],
                                  sent |-> EmitIfConnected(c, connected),
                                  cleared |-> TRUE]
                    /\ Return(c)
    /\ UNCHANGED <<messages, now, nextId>>
    /\ UNCHANGED relayVars
    /\ UNCHANGED authVars
    /\ UNCHANGED pageVars
    /\ outbox' = Emitted(c, lastOp'.sent)
    /\ UNCHANGED inbox

\* await supabase.from('messages').delete().in('id', idsToDelete)
DeleteResolves(c, error, connected) ==
    /\ pc[c] = "delete"
    /\ IF error
       THEN /\ trimError' = TRUE
            /\ lastOp' = [op |-> "deleteFailed", client |-> c, at |-> pc[c],
                          message |-> messageData[c], read |-> messages,
                          connected |-> connected, socket |-> pageSocket[c],
                          sent |-> EmitIfConnected(c, connected),
                          cleared |-> TRUE]
            /\ UNCHANGED messages
       ELSE /\ messages' = DeleteAs(UserOf(c), messages,
                               { r \in messages : r.id \in idsToDelete[c] })
            /\ lastOp' = [op |-> "trimmed", client |-> c, at |-> pc[c],
                          message |-> messageData[c],
                          over |-> ExceedsLimit(inserted[c]),
                          read |-> messages, deleted |-> messages \ messages',
                          quiet |-> JustRead(c),
                          rerun |-> JustRead(c) /\ lastOp.after,
                          connected |-> connected, socket |-> pageSocket[c],
                          sent |-> EmitIfConnected(c, connected),
                          cleared |-> TRUE]
            /\ UNCHANGED trimError
    /\ Return(c)
    /\ UNCHANGED <<now, nextId>>
    /\ UNCHANGED relayVars
    /\ UNCHANGED authVars
    /\ UNCHANGED pageVars
    /\ outbox' = Emitted(c, lastOp'.sent)
    /\ UNCHANGED inbox

\* SELECT delete_old_messages(), from a scheduled job or by hand
RunDeleteOldMessages ==
    /\ messages' = DeleteOldMessages(messages, now)
    /\ lastOp' = [op |-> "delete_old_messages"]
    /\ UNCHANGED <<now, nextId, pc, messageData, idsToDelete, inserted, trimError>>
    /\ UNCHANGED relayVars
    /\ UNCHANGED authVars
    /\ UNCHANGED pageVars
    /\ UNCHANGED wireVars

\* SELECT * FROM cleanup_messages(), by hand in the SQL editor
RunCleanupMessages ==
    /\ LET done == CleanupMessages(messages, now)
       IN /\ messages' = done.rows
          /\ lastOp' = [op |-> "cleanup_messages",
                        deleted_count |-> done.deleted_count]
    /\ UNCHANGED <<now, nextId, pc, messageData, idsToDelete, inserted, trimError>>
    /\ UNCHANGED relayVars
    /\ UNCHANGED authVars
    /\ UNCHANGED pageVars
    /\ UNCHANGED wireVars

(***************************************************************************)
(* The page's socket effect.                                               *)
(***************************************************************************)
\* socket?.connected
Connected(c) == pageSocket[c] # 0

\* the relay has registered the page's live socket
Joined(c) == Connected(c) /\ MapHas(connectedUsers, pageSocket[c])

\* faulty variant: the new message put in front, [message, ...prev]
OnPacketPrepends(list, packet) ==
    IF packet.ev = "message:received" THEN << packet.data >> \o list ELSE list

\* newSocket.on('message:received', (message) => setMessages((prev) =>
\* [...prev, message])); the page listens to no other event of the relay
OnPacket(list, packet) ==
    IF packet.ev = "message:received" THEN Append(list, packet.data) ELSE list

\* the page's socket receives the next packet of its wire
PageReceives(c) ==
    /\ c \in wired
    /\ Connected(c)
    /\ inbox[pageSocket[c]] # << >>
    /\ pageMessages' = [pageMessages EXCEPT
                            ![c] = OnPacket(@, Head(inbox[pageSocket[c]]))]
    /\ inbox' = [inbox EXCEPT ![pageSocket[c]] = Tail(@)]
    /\ UNCHANGED <<wired, pageSocket, loading, loaded, pageProfile, reconnecting, outbox>>
    /\ UNCHANGED relayVars
    /\ UNCHANGED authVars
    /\ UNCHANGED storeVars

(***************************************************************************)
(* The page's initial load.                                                *)
(***************************************************************************)
Min(a, b) == IF a <= b THEN a ELSE b

\* the rows put in a row, by created_at and, among rows of equal created_at,
\* by their place in the order tie
Arranged(rows, tie) ==
    LET before(r) == { q \in rows : \/ q.created_at < r.created_at
                                   \/ /\ q.created_at = r.created_at
                                      /\ q # r
                                      /\ tie[q] < tie[r] }
        rank == [r \in rows |-> Cardinality(before(r))]
    IN [i \in 1..Cardinality(rows) |-> CHOOSE r \in rows : rank[r] = i - 1]

\* .order('created_at', { ascending: true }): the rows in ascending created_at.
\* Rows of equal created_at come in an order the store does not fix, so this
\* is the set of the possible orders.
Ascending(rows) ==
    LET tied == { r \in rows : \E q \in rows \ {r} : q.created_at = r.created_at }
        ties == { tie \in [tied -> 1..Cardinality(tied)] :
                    \A q, r \in tied : q # r => tie[q] # tie[r] }
    IN { Arranged(rows, tie) : tie \in ties }

\* .limit(k): the k first rows of the ordered read
Limit(ordered, k) == SubSeq(ordered, 1, Min(k, Len(ordered)))

\* supabase.from('messages').select('*').order('created_at', { ascending: true })
\* .limit(100): the possible values of data
LoadMessages(rows) == { Limit(ordered, HistoryLimit) : ordered \in Ascending(rows) }

\* the store runs the read of loadMessages: the response, on its way to the
\* page, holds the rows of that moment
LoadReads(c) ==
    /\ c \in loading
    /\ loaded[c] = << >>
    /\ \E data \in LoadMessages(messages) :
          loaded' = [loaded EXCEPT ![c] = << [read |-> messages, data |-> data] >>]
    /\ UNCHANGED <<wired, pageSocket, pageMessages, loading, pageProfile, reconnecting>>
    /\ UNCHANGED storeVars
    /\ UNCHANGED relayVars
    /\ UNCHANGED authVars
    /\ UNCHANGED wireVars

\* the response of loadMessages arrives: if (data && !error) setMessages(data)
LoadResolves(c, error) ==
    /\ c \in loading
    /\ loaded[c] # << >>
    /\ loading' = loading \ {c}
    /\ loaded' = [loaded EXCEPT ![c] = << >>]
    /\ IF error
       THEN /\ lastOp' = [op |-> "loadFailed", client |-> c]
            /\ UNCHANGED pageMessages
       ELSE /\ pageMessages' = [pageMessages EXCEPT ![c] = loaded[c][1].data]
            /\ lastOp' = [op |-> "loaded", client |-> c,
                          read |-> loaded[c][1].read, data |-> loaded[c][1].data]
    /\ UNCHANGED <<messages, now, nextId, pc, messageData, idsToDelete, inserted,
                   trimError>>
    /\ UNCHANGED <<wired, pageSocket, pageProfile, reconnecting>>
    /\ UNCHANGED relayVars
    /\ UNCHANGED authVars
    /\ UNCHANGED wireVars

(***************************************************************************)
(* The page's profile editor and its presence re-sent when the tab becomes *)
(* visible.  The page's user is the one of the auth context, which no step *)
(* of the page changes.                                                    *)
(***************************************************************************)
\* what the editor holds as editName and as editFile
EditNames == { "Ann", "Bob", "Cy" }
EditFiles == { "none", "new.png" }

\* supabase.storage.from('profile-pictures').getPublicUrl(filePath)
PublicUrl(file) == IF file = "new.png" THEN "avatars/new.png" ELSE "none"

\* the row of the page's user in table users
Account(c, name, url) ==
    [id |-> UserOf(c), name |-> name, profile_picture_url |-> url]

\* supabase.from('users').update({ name }).eq('id', id)
UpdateName(rows, id, name) ==
    { IF r.id = id THEN [r EXCEPT !.name = name] ELSE r : r \in rows }

\* supabase.from('users').update({ profile_picture_url }).eq('id', id)
UpdatePicture(rows, id, url) ==
    { IF r.id = id THEN [r EXCEPT !.profile_picture_url = url] ELSE r : r \in rows }

\* handleSaveProfile with its uploadProfilePicture: the picture is uploaded
\* and stored in the user's row, the name is stored when it differs, and the
\* page's profile is set; an error at either await leaves the profile as it is
HandleSaveProfile(c, editName, editFile, outcome) ==
    /\ c \in wired
    /\ LET effectiveProfile == pageProfile[c]
           uploadFailed == editFile # "none" /\ outcome = "uploadError"
           newAvatarUrl == IF editFile # "none" THEN PublicUrl(editFile)
                           ELSE effectiveProfile.profile_picture_url
           pictured == IF editFile # "none" /\ ~uploadFailed
                       THEN UpdatePicture(users, UserOf(c), newAvatarUrl)
                       ELSE users
           updateFailed == /\ ~uploadFailed
                           /\ editName # effectiveProfile.name
                           /\ outcome = "updateError"
           named == IF ~uploadFailed /\ ~updateFailed /\ editName # effectiveProfile.name
                    THEN UpdateName(pictured, UserOf(c), editName)
                    ELSE pictured
           ok == ~uploadFailed /\ ~updateFailed
       IN /\ users' = named
          /\ pageProfile' =
                IF ok
                THEN [pageProfile EXCEPT
                         ![c] = [name |-> editName, profile_picture_url |-> newAvatarUrl]]
                ELSE pageProfile
    /\ UNCHANGED <<wired, pageSocket, pageMessages, loading, loaded, reconnecting>>
    /\ UNCHANGED storeVars
    /\ UNCHANGED <<approvedEmails, session, authState, mounted, safetyTimeout,
                   firstRender, approvedEmailCache, tasks, lastAuth,
                   authCalls, authEvents>>
    /\ UNCHANGED relayVars
    /\ UNCHANGED wireVars

\* onVisibility with the tab visible: a socket that is not connected is told to
\* connect (the relay's Connection follows), a connected one re-sends user:join
OnVisibility(c) ==
    /\ c \in wired
    /\ Connected(c)
    /\ outbox' = [outbox EXCEPT
                     ![pageSocket[c]] = Append(@, Packet("user:join", PageUser(c)))]
    /\ lastOp' = [op |-> "join", client |-> c, data |-> PageUser(c),
                  profile |-> pageProfile[c]]
    /\ UNCHANGED inbox
    /\ UNCHANGED <<messages, now, nextId, pc, messageData, idsToDelete, inserted,
                   trimError>>
    /\ UNCHANGED pageVars
    /\ UNCHANGED relayVars
    /\ UNCHANGED authVars

(***************************************************************************)
(* AuthProvider (services/supabaseClient.ts): the approval check, the      *)
(* session restore, the auth listener, signUp, signIn and signOut, one     *)
(* action per stretch of code between two awaits.  The identity provider   *)
(* keeps emails in lower case and an account's id stands for its email.    *)
(***************************************************************************)
\* what the forms pass as email and as password
Emails == { "", "Ann@x", "bob@x" }
Passwords == { "", "pw" }

\* (email || '').toLowerCase()
ToLowerCase(email) == IF email = "Ann@x" THEN "ann@x" ELSE email

\* the emails an account or a row of approved_emails can have
Addresses == { ToLowerCase(email) : email \in Emails } \ { "" }

\* session.user.email?.split('@')[0] || 'User'
NamePart(email) ==
    CASE email = "ann@x" -> "ann"
      [] email = "bob@x" -> "bob"
      [] OTHER -> "User"

Null == "null"
NoSession == "none"

\* interface User, and user: null
User(id, email, name) == [id |-> id, email |-> email, name |-> name]
NullUser == User(Null, Null, Null)

\* const baseUser: User = { id: session.user.id, email: session.user.email || '', ... }
BaseUser(sess) == User(sess, sess, NamePart(sess))

\* { user: null, loading: false, error: null }
SignedOutState == [user |-> NullUser, loading |-> FALSE, error |-> Null]

\* the row of an account in table users
ProfileRow(id, email, name) == User(id, email, name)

EmptyCache == << >>

\* the name typed into the sign-up form
SignUpName == "Nan"

(***************************************************************************)
(* verifyApprovedEmail: the part before its await, and the part after.     *)
(***************************************************************************)
\* neither the empty email nor a cached one: the table is asked
NeedsLookup(email, cache) ==
    ToLowerCase(email) # "" /\ ~MapHas(cache, ToLowerCase(email))

\* the value returned without asking the table
Answered(email, cache) ==
    IF ToLowerCase(email) = ""
    THEN [ok |-> FALSE, error |-> "Email is required."]
    ELSE IF MapGet(cache, ToLowerCase(email))
         THEN [ok |-> TRUE, error |-> Null]
         ELSE [ok |-> FALSE, error |-> "Email not approved."]

\* the value returned once .from('approved_emails').select('email')
\* .eq('email', normalized).maybeSingle() has resolved
LookedUp(email, error, rows) ==
    IF error
    THEN [ok |-> FALSE, error |-> "Unable to verify email approval right now."]
    ELSE IF ToLowerCase(email) \in rows
         THEN [ok |-> TRUE, error |-> Null]
         ELSE [ok |-> FALSE, error |-> "Email not approved. Contact admin."]

\* faulty variant: a lookup that ended in an error is cached as not approved
CacheSetOnError(cache, email, error, rows) ==
    MapSet(cache, ToLowerCase(email), ~error /\ ToLowerCase(email) \in rows)

\* approvedEmailCache.set(normalized, ok), which a lookup error does not reach
CacheSet(cache, email, error, rows) ==
    IF error THEN cache
    ELSE MapSet(cache, ToLowerCase(email), ToLowerCase(email) \in rows)

(***************************************************************************)
(* const approvedEmailCache = new Map() runs at every render: the effect   *)
(* (initAuth) keeps the Map of the first render, signUp and signIn use the *)
(* Map of the render they were called from.  A call in flight is labelled  *)
(* with its Map: "first", "current", or "stale" once the provider has      *)
(* rendered again.                                                         *)
(***************************************************************************)
CallLabel == IF firstRender THEN "first" ELSE "current"

CacheOf(label) ==
    IF label = "first" THEN approvedEmailCache.first ELSE approvedEmailCache.current

\* the Maps after the call labelled label has set its Map to cache
CacheWritten(label, cache) ==
    CASE label = "first"   -> [approvedEmailCache EXCEPT !.first = cache]
      [] label = "current" -> [approvedEmailCache EXCEPT !.current = cache]
      [] OTHER             -> approvedEmailCache

\* the calls in flight after a render
Stale(ts) ==
    { IF t.cache = "current" THEN [t EXCEPT !.cache = "stale"] ELSE t : t \in ts }

\* a call in flight: which function, the await it stands at, its email (or
\* its session's), its Map, its loop counter, its userId and approved.error
Task(op, at, email, cache, i, userId, error) ==
    [op |-> op, at |-> at, email |-> email, cache |-> cache, i |-> i,
     userId |-> userId, error |-> error]

\* the background profile fetch of session sess
ProfileFetch(sess) == Task("profile", "select", sess, "stale", 0, sess, Null)

(***************************************************************************)
(* A step of the provider is described by what it does: the calls that end *)
(* and that start, the state set (a setState makes the provider render),   *)
(* the Maps, the session, the timer, the tables and the histories.         *)
(***************************************************************************)
Same ==
    [gone    |-> {},
     next    |-> {},
     state   |-> authState,
     render  |-> FALSE,
     cache   |-> approvedEmailCache,
     session |-> session,
     timer   |-> safetyTimeout,
     users   |-> users,
     authCalls  |-> authCalls,
     authEvents |-> authEvents,
     last    |-> [op |-> "none"]]

Step(e) ==
    /\ tasks' = IF e.render THEN Stale((tasks \ e.gone) \cup e.next)
                ELSE (tasks \ e.gone) \cup e.next
    /\ authState' = e.state
    /\ firstRender' = (firstRender /\ ~e.render)
    /\ approvedEmailCache' =
           IF e.render THEN [first |-> e.cache.first, current |-> EmptyCache]
           ELSE e.cache
    /\ session' = e.session
    /\ safetyTimeout' = e.timer
    /\ users' = e.users
    /\ lastAuth' = e.last
    /\ authCalls' = e.authCalls
    /\ authEvents' = e.authEvents
    /\ UNCHANGED <<approvedEmails, mounted>>
    /\ UNCHANGED relayVars
    /\ UNCHANGED storeVars
    /\ UNCHANGED pageVars
    /\ UNCHANGED wireVars

\* setState(next)
SetState(e, next) == [e EXCEPT !.state = next, !.render = TRUE]

\* if (mounted) setState(next)
SetStateIfMounted(e, next) == IF mounted THEN SetState(e, next) ELSE e

\* supabase.auth.onAuthStateChange((event, session) => { ... })
OnAuthStateChange(event, sess, e) ==
    IF ~mounted THEN e
    ELSE IF event = "SIGNED_IN" /\ sess # NoSession
    THEN [SetState(e, [user |-> BaseUser(sess), loading |-> FALSE, error |-> Null])
             EXCEPT !.next = @ \cup { ProfileFetch(sess) }]
    ELSE IF event = "SIGNED_OUT" THEN SetState(e, SignedOutState)
    ELSE IF event = "INITIAL_SESSION" THEN e
    ELSE SetState(e, [e.state EXCEPT !.loading = FALSE])

\* the auth client stores sess as its session and notifies the listener
SessionSet(sess, event, e) ==
    OnAuthStateChange(event, sess, [e EXCEPT !.session = sess])
(***************************************************************************)
(* initAuth, the safety timeout and the background profile fetch.          *)
(***************************************************************************)
\* a call of op standing at its await at
At(op, at) == { t \in tasks : t.op = op /\ t.at = at }

\* initAuth from "if (!approved.ok)" on: sign out, or expose the user of the
\* session and fetch the profile; the finally clause clears the timer when
\* initAuth ends
InitAuthApproved(sess, approved, e) ==
    IF ~approved.ok
    THEN [e EXCEPT !.next = @ \cup
              { Task("initAuth", "signOut", sess, "first", 0, Null, approved.error) }]
    ELSE [SetState(e, [user |-> BaseUser(sess), loading |-> FALSE, error |-> Null])
              EXCEPT !.next = @ \cup { ProfileFetch(sess) }, !.timer = FALSE]

\* await supabase.auth.getSession() resolves
GetSessionResolves(outcome) ==
    \E t \in At("initAuth", "getSession") :
        LET e == [Same EXCEPT !.gone = {t},
                              !.last = [op |-> "initAuth", at |-> "getSession"]]
        IN Step(IF outcome \in {"sessionError", "throws"}
                THEN [SetStateIfMounted(e, SignedOutState) EXCEPT !.timer = FALSE]
                ELSE IF ~mounted THEN [e EXCEPT !.timer = FALSE]
                ELSE IF session = NoSession
                THEN [SetState(e, SignedOutState) EXCEPT !.timer = FALSE]
                ELSE IF NeedsLookup(session, CacheOf("first"))
                THEN [e EXCEPT !.next =
                         { Task("initAuth", "verify", session, "first", 0, Null, Null) }]
                ELSE InitAuthApproved(session, Answered(session, CacheOf("first")), e))

\* the lookup of initAuth's verifyApprovedEmail resolves
InitAuthVerified(error) ==
    \E t \in At("initAuth", "verify") :
        LET cache == CacheSet(CacheOf("first"), t.email, error, approvedEmails)
            e == [Same EXCEPT !.gone = {t},
                              !.cache = CacheWritten("first", cache),
                              !.last = [op |-> "initAuth", at |-> "verify"]]
        IN Step(InitAuthApproved(t.email, LookedUp(t.email, error, approvedEmails), e))

\* await supabase.auth.signOut() of initAuth resolves: the session is removed
\* and SIGNED_OUT notified, or an error is returned and the session kept
InitAuthSignedOut(outcome) ==
    \E t \in At("initAuth", "signOut") :
        LET e == [Same EXCEPT !.gone = {t}, !.timer = FALSE,
                              !.last = [op |-> "initAuth", at |-> "signOut"]]
            unapproved == [user |-> NullUser, loading |-> FALSE, error |-> t.error]
        IN Step(CASE outcome = "ok" ->
                       SetStateIfMounted(SessionSet(NoSession, "SIGNED_OUT", e), unapproved)
                  [] outcome = "error" -> SetStateIfMounted(e, unapproved)
                  [] OTHER -> SetStateIfMounted(e, SignedOutState))

\* faulty variant: the callback of the timer sets nothing
SafetyTimeoutFiresIdly ==
    /\ safetyTimeout
    /\ Step([Same EXCEPT !.timer = FALSE, !.last = [op |-> "safetyTimeout"]])

\* the safetyTimeout fires
SafetyTimeoutFires ==
    /\ safetyTimeout
    /\ Step([SetStateIfMounted(Same, [authState EXCEPT !.loading = FALSE])
                EXCEPT !.timer = FALSE, !.last = [op |-> "safetyTimeout"]])

\* .from('users').select('*').eq('id', session.user.id).single() of a background
\* fetch resolves, with the row or without (no row, an error, an exception)
ProfileResolves(found) ==
    \E t \in At("profile", "select") :
        LET rows == { r \in users : r.id = t.userId }
            e == [Same EXCEPT !.gone = {t},
                              !.last = [op |-> "profile", after |-> lastAuth.op,
                                        was |-> authState.user]]
        IN /\ found => rows # {}
           /\ Step(IF ~mounted \/ ~found THEN e
                   ELSE SetState(e, [e.state EXCEPT !.user = CHOOSE r \in rows : TRUE]))

\* return () => { mounted = false; subscription.unsubscribe() }
Unmount ==
    /\ mounted
    /\ mounted' = FALSE
    /\ lastAuth' = [op |-> "unmount"]
    /\ UNCHANGED <<approvedEmails, users, session, authState, safetyTimeout,
                   firstRender, approvedEmailCache, tasks, authCalls, authEvents>>
    /\ UNCHANGED relayVars
    /\ UNCHANGED storeVars
    /\ UNCHANGED pageVars
    /\ UNCHANGED wireVars

(***************************************************************************)
(* The notifications the auth client makes unasked.  With persistSession   *)
(* it notifies SIGNED_IN with the session it recovered from storage, when  *)
(* the page loads and whenever its tab becomes visible again; with         *)
(* autoRefreshToken it notifies TOKEN_REFRESHED.                           *)
(***************************************************************************)
Notified(event) ==
    OnAuthStateChange(event, session,
        [Same EXCEPT !.authEvents = @ + 1,
                     !.last = [op |-> "notified", event |-> event]])

SessionRecovered ==
    /\ session # NoSession
    /\ authEvents < MaxEvents
    /\ Step(Notified("SIGNED_IN"))

TokenRefreshed ==
    /\ session # NoSession
    /\ authEvents < MaxEvents
    /\ Step(Notified("TOKEN_REFRESHED"))

\* the emails an admin takes off the approved list, or puts back on it
Listed == { "ann@x" }

\* an admin adds the row of an email to table approved_emails, or deletes it
ApprovalChanges(email) ==
    /\ approvedEmails' = IF email \in approvedEmails THEN approvedEmails \ {email}
                         ELSE approvedEmails \cup {email}
    /\ lastAuth' = [op |-> "approvalChanges"]
    /\ UNCHANGED <<users, session, authState, mounted, safetyTimeout, firstRender,
                   approvedEmailCache, tasks, authCalls, authEvents>>
    /\ UNCHANGED relayVars
    /\ UNCHANGED storeVars
    /\ UNCHANGED pageVars
    /\ UNCHANGED wireVars

(***************************************************************************)
(* signUp.                                                                 *)
(***************************************************************************)
\* a function of the provider returns { error }
Returns(e, op, email, error) ==
    [e EXCEPT !.last = [op |-> op, at |-> "return", email |-> email, error |-> error]]

\* signUp from "if (!approved.ok)" on: return the error, or call auth.signUp
SignUpApproved(email, approved, e) ==
    IF ~approved.ok
    THEN [e EXCEPT !.last = [op |-> "signUp", at |-> "approval", email |-> email,
                             approved |-> approved, looked |-> FALSE,
                        had |-> session, called |-> FALSE,
                             returned |-> TRUE, error |-> approved.error]]
    ELSE [e EXCEPT !.next = @ \cup
                       { Task("signUp", "auth.signUp", email, "stale", 0, Null, Null) },
                   !.last = [op |-> "signUp", at |-> "approval", email |-> email,
                             approved |-> approved, looked |-> FALSE,
                        had |-> session, called |-> TRUE,
                             returned |-> FALSE, error |-> Null]]

\* signUp(email, password, name) is called
SignUp(email) ==
    /\ mounted
    /\ authCalls < MaxAuthCalls
    /\ LET e == [Same EXCEPT !.authCalls = @ + 1,
                             !.last = [op |-> "signUp", at |-> "call", email |-> email]]
       IN Step(IF NeedsLookup(email, CacheOf(CallLabel))
               THEN [e EXCEPT !.next =
                        { Task("signUp", "verify", email, CallLabel, 0, Null, Null) }]
               ELSE SignUpApproved(email, Answered(email, CacheOf(CallLabel)), e))

\* the lookup of signUp's verifyApprovedEmail resolves
SignUpVerified(error) ==
    \E t \in At("signUp", "verify") :
        LET cache == CacheSet(CacheOf(t.cache), t.email, error, approvedEmails)
            e == [Same EXCEPT !.gone = {t}, !.cache = CacheWritten(t.cache, cache)]
        IN Step([SignUpApproved(t.email, LookedUp(t.email, error, approvedEmails), e)
                    EXCEPT !.last.looked = TRUE])

\* .from('users').upsert(profilePayload, { onConflict: 'id' }) is issued
Upsert(t, i, userId) == Task("signUp", "upsert", t.email, "stale", i, userId, Null)

\* await supabase.auth.signUp({ email, password }) resolves: an error, an
\* exception, an account with a session (SIGNED_IN is notified), an account
\* that has to confirm its email, or no user in the answer
SignUpCredential(outcome) ==
    \E t \in At("signUp", "auth.signUp") :
        LET e == [Same EXCEPT !.gone = {t},
                              !.last = [op |-> "signUp", at |-> "auth.signUp"]]
            userId == ToLowerCase(t.email)
        IN Step(CASE outcome = "authError" ->
                       Returns(e, "signUp", t.email, "authError.message")
                  [] outcome = "throws" ->
                       Returns(e, "signUp", t.email, "An unexpected error occurred")
                  [] outcome = "session" ->
                       [SessionSet(userId, "SIGNED_IN", e)
                           EXCEPT !.next = @ \cup { Upsert(t, 0, userId) }]
                  [] outcome = "user" ->
                       [e EXCEPT !.next = { Upsert(t, 0, userId) }]
                  [] OTHER ->
                       [e EXCEPT !.next =
                           { Task("signUp", "getUser", t.email, "stale", 0, Null, Null) }])

\* await supabase.auth.getUser() of the poll resolves: the user of the session
\* the client holds, or none (then 300 ms later the next poll, five in all)
SignUpGetUser(outcome) ==
    \E t \in At("signUp", "getUser") :
        LET e == [Same EXCEPT !.gone = {t},
                              !.last = [op |-> "signUp", at |-> "getUser", i |-> t.i]]
        IN /\ outcome = "user" => session # NoSession
           /\ Step(CASE outcome = "user" ->
                          [e EXCEPT !.next = { Upsert(t, 0, session) }]
                     [] outcome = "throws" ->
                          Returns(e, "signUp", t.email, "An unexpected error occurred")
                     [] OTHER ->
                          IF t.i + 1 < MaxPolls
                          THEN [e EXCEPT !.next = { [t EXCEPT !.i = @ + 1] }]
                          ELSE Returns(e, "signUp", t.email,
                                       "Account created. Please check your email."))

\* what an upsert resolves with as profileError: nothing, a foreign-key
\* violation known by its code, one known by its message only, another error
NoError == [code |-> Null, message |-> Null]

ProfileError(outcome) ==
    CASE outcome = "fk"        -> [code |-> "23503", message |-> "violates foreign key constraint"]
      [] outcome = "fkMessage" -> [code |-> "P0001", message |-> "Foreign Key not found"]
      [] outcome = "error"     -> [code |-> "23505", message |-> "duplicate key value"]
      [] OTHER                 -> NoError

\* /foreign key/i.test(message)
MatchesForeignKey(message) ==
    message \in { "violates foreign key constraint", "Foreign Key not found" }

\* faulty variant: every error is taken for a transient one
IsAnyError(profileError) == TRUE

\* const isFkViolation = profileError.code === '23503' ||
\*     /foreign key/i.test(profileError.message || '')
IsFkViolation(profileError) ==
    profileError.code = "23503" \/ MatchesForeignKey(profileError.message)

\* an upsert of the profile resolves (attempt t.i of the loop): the row is
\* written and signUp returns, or signUp returns the error, or the next attempt
\* follows the backoff, or after the last attempt the existence check
SignUpUpsert(outcome) ==
    \E t \in At("signUp", "upsert") :
        LET e == [Same EXCEPT !.gone = {t}]
            row == ProfileRow(t.userId, t.email, SignUpName)
            profileError == ProfileError(outcome)
            done(error) == [op |-> "signUp", at |-> "upsert", email |-> t.email,
                            attempt |-> t.i, outcome |-> outcome,
                            returned |-> TRUE, error |-> error]
            goesOn == [op |-> "signUp", at |-> "upsert", email |-> t.email,
                       attempt |-> t.i, outcome |-> outcome,
                       returned |-> FALSE, error |-> Null]
        IN Step(IF outcome = "throws"
                THEN [e EXCEPT !.last = done("An unexpected error occurred")]
                ELSE IF profileError = NoError
                THEN [e EXCEPT !.users = { r \in users : r.id # t.userId } \cup { row },
                               !.last = done(Null)]
                ELSE IF ~IsFkViolation(profileError)
                THEN [e EXCEPT !.last = done(profileError.message)]
                ELSE IF t.i + 1 < MaxRetries
                THEN [e EXCEPT !.next = { [t EXCEPT !.i = @ + 1] }, !.last = goesOn]
                ELSE [e EXCEPT !.next = { [t EXCEPT !.at = "exists"] }, !.last = goesOn])

\* faulty variant: the delayed-creation error whatever the lookup found
ExistingDelayed(existingProfile) ==
    "Signup succeeded, but profile creation is delayed."

\* if (existingProfile?.id) return { error: null }; return { error: 'Signup
\* succeeded, but profile creation is delayed. ...' }
Existing(existingProfile) ==
    IF existingProfile # Null THEN Null
    ELSE "Signup succeeded, but profile creation is delayed."

\* the final existence check resolves: data is the row's id, or null when
\* there is no row or the lookup failed (its error is not read)
SignUpExisting(found) ==
    \E t \in At("signUp", "exists") :
        LET e == [Same EXCEPT !.gone = {t}]
            existingProfile == IF found THEN t.userId ELSE Null
        IN /\ found => \E r \in users : r.id = t.userId
           /\ Step([e EXCEPT !.last =
                      [op |-> "signUp", at |-> "exists", attempts |-> t.i + 1,
                       found |-> found, row |-> \E r \in users : r.id = t.userId,
                       returned |-> TRUE, error |-> Existing(existingProfile)]])

(***************************************************************************)
(* signIn.                                                                 *)
(***************************************************************************)
\* faulty variant: the credential operation called whatever the check returned
SignInApprovedUnchecked(email, approved, e) ==
    [e EXCEPT !.next = @ \cup
                  { Task("signIn", "signInWithPassword", email, "stale", 0, Null, Null) },
              !.last = [op |-> "signIn", at |-> "approval", email |-> email,
                        approved |-> approved, looked |-> FALSE,
                        had |-> session, called |-> TRUE,
                        returned |-> FALSE, error |-> Null]]

\* signIn from "if (!approved.ok)" on: return the error, or call
\* signInWithPassword
SignInApproved(email, approved, e) ==
    IF ~approved.ok
    THEN [e EXCEPT !.last = [op |-> "signIn", at |-> "approval", email |-> email,
                             approved |-> approved, looked |-> FALSE,
                        had |-> session, called |-> FALSE,
                             returned |-> TRUE, error |-> approved.error]]
    ELSE [e EXCEPT !.next = @ \cup
                       { Task("signIn", "signInWithPassword", email, "stale", 0, Null, Null) },
                   !.last = [op |-> "signIn", at |-> "approval", email |-> email,
                             approved |-> approved, looked |-> FALSE,
                        had |-> session, called |-> TRUE,
                             returned |-> FALSE, error |-> Null]]

\* signIn(email, password) is called
SignIn(email, password) ==
    /\ mounted
    /\ authCalls < MaxAuthCalls
    /\ LET e == [Same EXCEPT !.authCalls = @ + 1,
                             !.last = [op |-> "signIn", at |-> "call", email |-> email]]
       IN Step(IF email = "" \/ password = ""
               THEN Returns(e, "signIn", email, "Please enter both email and password.")
               ELSE IF NeedsLookup(email, CacheOf(CallLabel))
               THEN [e EXCEPT !.next =
                        { Task("signIn", "verify", email, CallLabel, 0, Null, Null) }]
               ELSE SignInApproved(email, Answered(email, CacheOf(CallLabel)), e))

\* the lookup of signIn's verifyApprovedEmail resolves
SignInVerified(error) ==
    \E t \in At("signIn", "verify") :
        LET cache == CacheSet(CacheOf(t.cache), t.email, error, approvedEmails)
            e == [Same EXCEPT !.gone = {t}, !.cache = CacheWritten(t.cache, cache)]
        IN Step([SignInApproved(t.email, LookedUp(t.email, error, approvedEmails), e)
                    EXCEPT !.last.looked = TRUE])

\* what signInWithPassword can answer
SignInOutcomes == { "ok", "invalid", "other", "noUser", "throws" }

\* the message signIn returns for an answer that is not a session
SignInError(outcome) ==
    CASE outcome = "invalid" -> "Incorrect email or password."
      [] outcome = "other" -> "Sign in failed. Please try again."
      [] outcome = "noUser" -> "Sign in failed. No user data received."
      [] OTHER -> "An unexpected error occurred. Please try again."

\* await supabase.auth.signInWithPassword({ email, password }) resolves: with
\* a session (SIGNED_IN is notified before signIn goes on), or without
SignInCredential(outcome) ==
    \E t \in At("signIn", "signInWithPassword") :
        LET e == [Same EXCEPT !.gone = {t}]
        IN Step(IF outcome = "ok"
                THEN Returns(SessionSet(ToLowerCase(t.email), "SIGNED_IN", e),
                             "signIn", t.email, Null)
                ELSE Returns(e, "signIn", t.email, SignInError(outcome)))

(***************************************************************************)
(* signOut.                                                                *)
(***************************************************************************)
\* signOut() is called: the state is set at once
SignOut ==
    /\ mounted
    /\ authCalls < MaxAuthCalls
    /\ Step([SetState(Same, SignedOutState)
                EXCEPT !.authCalls = @ + 1,
                       !.next = { Task("signOut", "local", "", "stale", 0, Null, Null) },
                       !.last = [op |-> "signOut", at |-> "call"]])

\* await supabase.auth.signOut({ scope: 'local' }) resolves: the session is
\* removed and SIGNED_OUT notified, an error is returned, or it throws
SignOutLocal(outcome) ==
    \E t \in At("signOut", "local") :
        LET e == [Same EXCEPT !.gone = {t}, !.last = [op |-> "signOut", at |-> "local"]]
            global == [t EXCEPT !.at = "global"]
        IN Step(CASE outcome = "ok" ->
                       [SessionSet(NoSession, "SIGNED_OUT", e)
                           EXCEPT !.next = @ \cup { global }]
                  [] outcome = "error" -> [e EXCEPT !.next = { global }]
                  [] OTHER -> e)

\* await supabase.auth.signOut({ scope: 'global' }) resolves
SignOutGlobal(outcome) ==
    \E t \in At("signOut", "global") :
        LET e == [Same EXCEPT !.gone = {t}, !.last = [op |-> "signOut", at |-> "global"]]
        IN Step(IF outcome = "ok" THEN SessionSet(NoSession, "SIGNED_OUT", e) ELSE e)

(***************************************************************************)
(* What ChatRoomPage renders from the provider's state.                    *)
(***************************************************************************)
\* if (loading) return <the spinner>; if (!user) return <Navigate to="/login"
\* replace />; otherwise the chat
ChatRoomPageRenders ==
    IF authState.loading THEN "restoring"
    ELSE IF authState.user = NullUser THEN "/login"
    ELSE "chat"

(***************************************************************************)
(* verifyApprovedEmail called on its own, several times on the Map of one  *)
(* render: a call may start while the lookup of another is in flight.      *)
(***************************************************************************)
\* what a call of verifyApprovedEmail returned, with its Map before and after
Verified(email, looked, failed, approved, was, cache) ==
    [op |-> "verify", at |-> "return", email |-> email, looked |-> looked,
     failed |-> failed, approved |-> approved, cacheWas |-> was, cacheNow |-> cache]

\* verifyApprovedEmail(email) is called: it returns at once for no email and
\* for a cached one, and asks the table otherwise
VerifyApprovedEmail(email) ==
    /\ authCalls < MaxLookups
    /\ LET cache == CacheOf(CallLabel)
           e == [Same EXCEPT !.authCalls = @ + 1]
       IN Step(IF NeedsLookup(email, cache)
               THEN [e EXCEPT !.next =
                         { Task("verify", "lookup", email, CallLabel, authCalls, Null, Null) },
                              !.last = [op |-> "verify", at |-> "call", email |-> email]]
               ELSE [e EXCEPT !.last =
                         Verified(email, FALSE, FALSE, Answered(email, cache), cache, cache)])

\* the lookup of a call resolves
VerifyResolves(error) ==
    \E t \in At("verify", "lookup") :
        LET was == CacheOf(t.cache)
            cache == CacheSet(was, t.email, error, approvedEmails)
        IN Step([Same EXCEPT !.gone = {t},
                             !.cache = CacheWritten(t.cache, cache),
                             !.last = Verified(t.email, TRUE, error,
                                               LookedUp(t.email, error, approvedEmails),
                                               was, cache)])

(***************************************************************************)
(* The provider at its start, and the provider left out.                   *)
(***************************************************************************)
\* the provider mounts: ann@x is on the approved list, bob@x is not, and the
\* auth client may hold the session of an earlier visit of either
AuthInit ==
    /\ approvedEmails = Listed
    /\ session \in { NoSession } \cup Addresses
    /\ users = { ProfileRow(a, a, NamePart(a)) : a \in Addresses }
    /\ authState = [user |-> NullUser, loading |-> TRUE, error |-> Null]
    /\ mounted = TRUE
    /\ safetyTimeout = TRUE
    /\ firstRender = TRUE
    /\ approvedEmailCache = [first |-> EmptyCache, current |-> EmptyCache]
    /\ tasks = { Task("initAuth", "getSession", "", "first", 0, Null, Null) }
    /\ lastAuth = [op |-> "none"]
    /\ authCalls = 0
    /\ authEvents = 0

\* no provider: nobody signs up, in or out
AuthIdleWith(rows) ==
    /\ approvedEmails = {}
    /\ session = NoSession
    /\ users = rows
    /\ authState = SignedOutState
    /\ mounted = FALSE
    /\ safetyTimeout = FALSE
    /\ firstRender = TRUE
    /\ approvedEmailCache = [first |-> EmptyCache, current |-> EmptyCache]
    /\ tasks = {}
    /\ lastAuth = [op |-> "none"]
    /\ authCalls = 0
    /\ authEvents = 0

AuthIdle == AuthIdleWith({})

AuthNext ==
    \/ \E outcome \in {"session", "sessionError", "throws"} : GetSessionResolves(outcome)
    \/ \E error \in BOOLEAN : InitAuthVerified(error)
    \/ \E outcome \in {"ok", "error", "throws"} : InitAuthSignedOut(outcome)
    \/ SafetyTimeoutFires
    \/ \E found \in BOOLEAN : ProfileResolves(found)
    \/ Unmount
    \/ SessionRecovered
    \/ TokenRefreshed
    \/ \E email \in Listed : ApprovalChanges(email)
    \/ \E email \in Emails : SignUp(email)
    \/ \E error \in BOOLEAN : SignUpVerified(error)
    \/ \E outcome \in {"authError", "throws", "session", "user", "noUser"} :
          SignUpCredential(outcome)
    \/ \E outcome \in {"user", "none", "throws"} : SignUpGetUser(outcome)
    \/ \E outcome \in {"ok", "error", "fk", "fkMessage", "throws"} : SignUpUpsert(outcome)
    \/ \E found \in BOOLEAN : SignUpExisting(found)
    \/ \E email \in Emails, password \in Passwords : SignIn(email, password)
    \/ \E error \in BOOLEAN : SignInVerified(error)
    \/ \E outcome \in SignInOutcomes : SignInCredential(outcome)
    \/ SignOut
    \/ \E outcome \in {"ok", "error", "throws"} : SignOutLocal(outcome)
    \/ \E outcome \in {"ok", "error", "throws"} : SignOutGlobal(outcome)

(***************************************************************************)
(* Initial states.                                                         *)
(***************************************************************************)
\* who wrote the rows the table holds at the start
Authors == { "u1", "both" }

AuthorOf(pattern, i) ==
    IF pattern = "both" THEN (IF i % 2 = 1 THEN "u2" ELSE "u1") ELSE pattern

\* a table of k rows sent one per tick up to StartTime (the rows of a table of
\* more than StartTime rows reach back before tick 1)
Stored(pattern, k) ==
    { Row(i, AuthorOf(pattern, i), i) : i \in (MaxMessages - k + 1)..MaxMessages }

StoreStart(rows) ==
    /\ messages = rows
    /\ now = StartTime
    /\ nextId = MaxMessages + 1
    /\ pc = [c \in Clients |-> "idle"]
    /\ messageData = [c \in Clients |-> NoMessage(c)]
    /\ idsToDelete = [c \in Clients |-> {}]
    /\ inserted = [c \in Clients |-> 0]
    /\ lastOp = [op |-> "none"]
    /\ trimError = FALSE

\* the pages whose sockets are part of the model, none connected yet, and the
\* pages whose initial load is still under way
PagesStart(pages, loads) ==
    /\ wired = pages
    /\ loading = loads
    /\ loaded = [c \in Clients |-> << >>]
    /\ pageProfile = [c \in Clients |-> Profile(c)]
    /\ reconnecting = {}
    /\ pageSocket = [c \in Clients |-> 0]
    /\ pageMessages = [c \in Clients |-> << >>]
    /\ outbox = [s \in SocketIds |-> << >>]
    /\ inbox = [s \in SocketIds |-> << >>]

\* pages whose initial load has resolved
PagesInit(pages) == PagesStart(pages, {})

StoreInit ==
    \E pattern \in Authors, k \in {MaxMessages - 1, MaxMessages} :
        StoreStart(Stored(pattern, k))

StoreNext ==
    \/ \E t \in Times : ClockAdvances(t)
    \/ \E c \in Clients : HandleSendMessage(c)
    \/ \E c \in Clients, error \in BOOLEAN : InsertResolves(c, error)
    \/ \E c \in Clients, listError \in BOOLEAN, connected \in BOOLEAN :
          SelectResolves(c, listError, connected)
    \/ \E c \in Clients, error \in BOOLEAN, connected \in BOOLEAN :
          DeleteResolves(c, error, connected)

(***************************************************************************)
(* Specifications: the relay alone (the table empty and no page sending),  *)
(* and the pages with the table (no socket attached).                      *)
(***************************************************************************)
Init == RelayInit /\ StoreStart({}) /\ PagesInit({}) /\ AuthIdle

Next == RelayNext

Spec == Init /\ [][Next]_vars

InitStore == RelayInit /\ StoreInit /\ PagesInit({}) /\ AuthIdle

SpecStore == InitStore /\ [][StoreNext]_vars

\* the pages with the table, and the expiry functions called at any time
ExpiryNext ==
    \/ StoreNext
    \/ RunDeleteOldMessages
    \/ RunCleanupMessages

SpecExpiry == InitStore /\ [][ExpiryNext]_vars

\* the pages, their sockets, the relay and the table together: joined pages
\* send, the relay handles what comes over the wires
ChatInit ==
    RelayInit /\ StoreStart(Stored("u1", MaxMessages)) /\ PagesInit(Clients) /\ AuthIdle

ChatNext ==
    \/ \E socket \in SocketIds : Connection(socket) /\ socket \in PageSockets'
    \/ \E socket \in SocketIds :
          /\ NextFrom(socket, "user:join")
          /\ UserJoin(socket, Head(outbox[socket]).data)
    \/ \E socket \in SocketIds :
          /\ NextFrom(socket, "message:send")
          /\ MessageSend(socket, Head(outbox[socket]).data)
    \/ \E socket \in SocketIds : Disconnect(socket)
    \/ \E c \in Clients : PageReceives(c)
    \/ \E c \in Clients : Joined(c) /\ HandleSendMessage(c)
    \/ \E c \in Clients, error \in BOOLEAN : InsertResolves(c, error)
    \/ \E c \in Clients, listError \in BOOLEAN :
          SelectResolves(c, listError, Connected(c))
    \/ \E c \in Clients, error \in BOOLEAN :
          DeleteResolves(c, error, Connected(c))

SpecChat == ChatInit /\ [][ChatNext]_vars

\* the pages loading a table of any size up to MaxStored, its rows sent one
\* per tick up to StartTime
LoadInit ==
    /\ RelayInit
    /\ \E pattern \in Authors, n \in 0..MaxStored : StoreStart(Stored(pattern, n))
    /\ PagesStart({}, Clients)
    /\ AuthIdle

LoadNext ==
    \/ \E c \in Clients : LoadReads(c)
    \/ \E c \in Clients, error \in BOOLEAN : LoadResolves(c, error)

SpecLoad == LoadInit /\ [][LoadNext]_vars

\* the relay with listening pages and clients of any kind: every attached
\* socket sends any message, the same one again included
FanoutInit == RelayInit /\ StoreStart({}) /\ PagesInit(Clients) /\ AuthIdle

FanoutNext ==
    \/ \E socket \in SocketIds : Connection(socket)
    \/ \E socket \in SocketIds :
          /\ NextFrom(socket, "user:join")
          /\ UserJoin(socket, Head(outbox[socket]).data)
    \/ \E socket \in SocketIds, message \in ChatMessage :
          /\ Len(relayed) < MaxSubmits
          /\ MessageSend(socket, message)
    \/ \E c \in Clients : PageReceives(c)

SpecFanout == FanoutInit /\ [][FanoutNext]_vars

\* the pages with the initial load of page 1 under way (the load of the
\* others has failed) while the sockets connect, the pages send and the relay
\* broadcasts; a table of one row, so that no trim deletes, and sockets that
\* stay connected
FeedInit ==
    /\ RelayInit
    /\ StoreStart(Stored("u1", 1))
    /\ PagesStart(Clients, {1})
    /\ AuthIdle

FeedNext ==
    \/ \E socket \in SocketIds : Connection(socket) /\ socket \in PageSockets'
    \/ \E socket \in SocketIds :
          /\ NextFrom(socket, "user:join")
          /\ UserJoin(socket, Head(outbox[socket]).data)
    \/ \E socket \in SocketIds :
          /\ NextFrom(socket, "message:send")
          /\ MessageSend(socket, Head(outbox[socket]).data)
    \/ \E c \in Clients : PageReceives(c)
    \/ ClockAdvances(StartTime + 1)
    \/ \E c \in Clients : Joined(c) /\ HandleSendMessage(c)
    \/ \E c \in Clients, error \in BOOLEAN : InsertResolves(c, error)
    \/ \E c \in Clients, listError \in BOOLEAN :
          SelectResolves(c, listError, Connected(c))
    \/ \E c \in Clients : LoadReads(c)
    \/ \E c \in Clients, error \in BOOLEAN : LoadResolves(c, error)

SpecFeed == FeedInit /\ [][FeedNext]_vars

\* a page with its profile editor, its socket and the relay
ProfileInit ==
    /\ RelayInit
    /\ StoreStart({})
    /\ PagesInit({1})
    /\ AuthIdleWith({ Account(c, Profile(c).name, Profile(c).profile_picture_url) :
                        c \in Clients })

ProfileNext ==
    \/ \E socket \in SocketIds : Connection(socket) /\ socket \in PageSockets'
    \/ \E socket \in SocketIds :
          /\ NextFrom(socket, "user:join")
          /\ UserJoin(socket, Head(outbox[socket]).data)
    \/ \E socket \in SocketIds : Disconnect(socket)
    \/ \E c \in Clients :
          /\ Connected(c)
          /\ Len(outbox[pageSocket[c]]) < MaxSubmits
          /\ OnVisibility(c)
    \/ \E c \in Clients, editName \in EditNames, editFile \in EditFiles,
             outcome \in {"ok", "uploadError", "updateError"} :
          HandleSaveProfile(c, editName, editFile, outcome)

SpecProfile == ProfileInit /\ [][ProfileNext]_vars

\* the provider alone: the tables of the chat empty and no page
AuthSpecInit == RelayInit /\ StoreStart({}) /\ PagesInit({}) /\ AuthInit

SpecAuth == AuthSpecInit /\ [][AuthNext]_vars

\* verifyApprovedEmail alone: the table approved_emails empty at first, the
\* emails given in either case, whole or empty
VerifyInit == RelayInit /\ StoreStart({}) /\ PagesInit({}) /\ AuthIdle

VerifyNext ==
    \/ \E email \in Emails \cup Addresses : VerifyApprovedEmail(email)
    \/ \E error \in BOOLEAN : VerifyResolves(error)
    \/ \E email \in Listed : ApprovalChanges(email)

SpecVerify == VerifyInit /\ [][VerifyNext]_vars

\* the provider with its timer: a timer set by setTimeout and not cleared
\* fires; no call over the network is bound to return
SpecAuthLive == SpecAuth /\ WF_vars(SafetyTimeoutFires)

(***************************************************************************)
(* Properties of the relay, checked under Spec.                            *)
(***************************************************************************)
\* the sockets that have joined and have not disconnected since: a socket id
\* is never handed out twice and no event of a closed socket is handled
JoinedNow == joined \ closed

\* the online list sent by the join handled last
OnlineList == dispatched.out[2].data

\* C1: after any sequence of joins and disconnects the registry has an entry
\* for exactly the sockets that have joined and not disconnected since, and
\* the online list built from it has one element per such socket.
C1_RegistryIsJoinedNotDisconnected ==
    /\ MapKeys(connectedUsers) = JoinedNow
    /\ Len(MapValues(connectedUsers)) = Cardinality(JoinedNow)
    /\ dispatched.ev = "user:join" => Len(OnlineList) = Cardinality(JoinedNow)

C1_Witness ==
    /\ joined \cap closed # {}
    /\ JoinedNow # {}
    /\ \E s \in attached : s \notin joined

\* C2: every key of the registry is the id of a live socket; the entry of a
\* socket is gone in the state in which the socket is closed, and no join of
\* a closed socket is handled.
C2_NoEntryOutlivesItsConnection ==
    /\ MapKeys(connectedUsers) \subseteq attached
    /\ MapKeys(connectedUsers) \cap closed = {}
    /\ dispatched.ev = "disconnect" => ~MapHas(connectedUsers, dispatched.from)
    /\ dispatched.ev = "user:join" => dispatched.from \notin closed

C2_Witness ==
    /\ dispatched.ev = "disconnect"
    /\ MapHas(dispatched.registry, dispatched.from)
    /\ connectedUsers # << >>

\* C3: a join of socket c with participant p sets the entry of c to p, then
\* emits one user:joined of p and c to every live socket, c and the sockets
\* that have not joined included, then emits users:online to c alone; the
\* list is the registry's values after the entry was set, so p is in it.
C3_JoinRegistersAnnouncesReplies ==
    dispatched.ev = "user:join" =>
        LET c == dispatched.from
            p == dispatched.data
        IN /\ MapHas(connectedUsers, c)
           /\ MapGet(connectedUsers, c) = p
           /\ Len(dispatched.out) = 2
           /\ dispatched.out[1] =
                 Emission("user:joined", attached,
                          [userId |-> p.userId, userName |-> p.userName,
                           userAvatar |-> p.userAvatar, socketId |-> c])
           /\ c \in dispatched.out[1].to
           /\ dispatched.out[2].ev = "users:online"
           /\ dispatched.out[2].to = {c}
           /\ OnlineList = MapValues(connectedUsers)
           /\ \E i \in 1..Len(OnlineList) : OnlineList[i] = p

C3_Witness ==
    /\ dispatched.ev = "user:join"
    /\ Cardinality(attached) >= 3
    /\ \E s \in dispatched.out[1].to : s \notin joined
    /\ Len(OnlineList) >= 2

\* C4: a message event of a live socket A, joined or not, is emitted as
\* exactly one message:received with the same payload to every live socket,
\* A included.
C4_MessageReachesAllIncludingSender ==
    dispatched.ev = "message:send" =>
        /\ dispatched.out =
              << Emission("message:received", attached, dispatched.data) >>
        /\ dispatched.from \in dispatched.out[1].to

C4_Witness ==
    /\ dispatched.ev = "message:send"
    /\ dispatched.from \notin joined
    /\ Cardinality(dispatched.out[1].to) >= 3
    /\ joined \cap attached # {}

\* C5: a typing:start or typing:stop of socket A is emitted as user:typing or
\* user:stopped-typing to every other live socket and not to A, and leaves
\* the registry as it was.
C5_TypingReachesOthersOnly ==
    dispatched.ev \in {"typing:start", "typing:stop"} =>
        /\ dispatched.out =
              << Emission(IF dispatched.ev = "typing:start"
                          THEN "user:typing" ELSE "user:stopped-typing",
                          attached \ {dispatched.from}, dispatched.data) >>
        /\ dispatched.from \notin dispatched.out[1].to
        /\ connectedUsers = dispatched.registry

C5_Witness ==
    /\ dispatched.ev = "typing:start"
    /\ Cardinality(dispatched.out[1].to) >= 2
    /\ connectedUsers # << >>

\* C6: when a socket that has joined is lost, exactly one user:left naming it
\* is emitted, to the remaining sockets, and the online list of every later
\* join is built from entries of sockets that are not closed.
C6_OneLeftForAJoinedConnection ==
    /\ \A s \in SocketIds :
          leftCount[s] = IF s \in joined \cap closed THEN 1 ELSE 0
    /\ (dispatched.ev = "disconnect" /\ dispatched.from \in joined) =>
          LET user == MapGet(dispatched.registry, dispatched.from)
          IN dispatched.out =
                << Emission("user:left", attached,
                            [userId |-> user.userId, userName |-> user.userName,
                             socketId |-> dispatched.from]) >>
    /\ dispatched.ev = "user:join" =>
          /\ OnlineList = MapValues(connectedUsers)
          /\ Len(OnlineList) = Cardinality(MapKeys(connectedUsers) \ closed)

C6_Witness ==
    /\ dispatched.ev = "user:join"
    /\ \E s \in joined \cap closed : leftCount[s] = 1
    /\ attached \ joined # {}

\* C7: the disconnection of a socket that never joined leaves the registry
\* as it was and emits no user:left to any socket.
C7_UnjoinedDisconnectIsSilent ==
    /\ (dispatched.ev = "disconnect" /\ dispatched.from \notin joined) =>
          /\ connectedUsers = dispatched.registry
          /\ dispatched.out = << >>
    /\ \A s \in closed \ joined : leftCount[s] = 0

C7_Witness ==
    /\ dispatched.ev = "disconnect"
    /\ dispatched.from \notin joined
    /\ connectedUsers # << >>
    /\ attached # {}

\* C8: a second join of the same socket overwrites the socket's entry with
\* the new participant data: the registry has as many entries as before and
\* the socket's one entry holds the latest payload.
C8_RejoinOverwrites ==
    /\ \A i, j \in 1..Len(connectedUsers) :
          connectedUsers[i].key = connectedUsers[j].key => i = j
    /\ (dispatched.ev = "user:join" /\ MapHas(dispatched.registry, dispatched.from)) =>
          /\ Len(connectedUsers) = Len(dispatched.registry)
          /\ MapGet(connectedUsers, dispatched.from) = dispatched.data

C8_Witness ==
    /\ dispatched.ev = "user:join"
    /\ MapHas(dispatched.registry, dispatched.from)
    /\ MapGet(dispatched.registry, dispatched.from) # dispatched.data
    /\ Len(connectedUsers) >= 2

(***************************************************************************)
(* Properties of the admission pipeline and the table, checked under       *)
(* SpecStore.                                                              *)
(***************************************************************************)
\* rows is the n most recent rows of all: n rows, none older than a row left out
MostRecent(rows, all, n) ==
    /\ rows \subseteq all
    /\ Cardinality(rows) = n
    /\ \A kept \in rows : \A gone \in all \ rows : gone.created_at <= kept.created_at

\* C9: when a page's insert succeeded and the table then held more than 50
\* rows, then after that page's trim has completed exactly the 50 rows with
\* the greatest created_at remain, whoever wrote the oldest rows.
C9_TrimLeavesFiftyMostRecent ==
    (lastOp.op = "trimmed" /\ lastOp.over) =>
        MostRecent(messages, lastOp.read, MaxMessages)

\* C10: once every submit has finished and no step of a trim has reported an
\* error, the table holds at most 50 rows.
C10_AtMostFiftyOnceQuiet ==
    ((\A c \in Clients : pc[c] = "idle") /\ ~trimError) =>
        Cardinality(messages) <= MaxMessages

C13_FailedTrimDoesNotFailTheSend ==
    lastOp.op \in {"selectFailed", "deleteFailed"} =>
        /\ messages = lastOp.read
        /\ lastOp.sent = (IF lastOp.connected THEN {lastOp.message} ELSE {})
        /\ lastOp.cleared
        /\ pc[lastOp.client] = "idle"

C13_Witness ==
    /\ lastOp.op = "deleteFailed"
    /\ lastOp.connected
    /\ lastOp.message \in messages
    /\ Cardinality(messages) > MaxMessages

\* the steps of a page
PageOps == {"send", "inserted", "insertFailed", "selected", "selectFailed",
            "deleteFailed", "trimmed"}

\* C15: a message is emitted to the relay only by the step that ends its
\* trim (the read found nothing to delete or failed, or the delete resolved),
\* which comes after its successful insert: no step before emits it.
C15_EmitAfterInsertAndTrim ==
    (lastOp.op \in PageOps /\ lastOp.sent # {}) =>
        /\ lastOp.op \in {"selectFailed", "deleteFailed", "trimmed"}
        /\ lastOp.at \in {"select", "delete"}
        /\ lastOp.sent = {lastOp.message}
        /\ pc[lastOp.client] = "idle"

C15_Witness ==
    /\ lastOp.op = "trimmed"
    /\ lastOp.at = "delete"
    /\ lastOp.sent # {}
    /\ lastOp.deleted # {}

(***************************************************************************)
(* Properties of the pages, their sockets, the relay and the table         *)
(* together, checked under SpecChat.                                       *)
(***************************************************************************)
Count(seq, x) == Cardinality({ i \in 1..Len(seq) : seq[i] = x })

\* the messages on the way to page c, in the order of its wire
PendingTo(c) ==
    IF Connected(c)
    THEN [i \in 1..Len(inbox[pageSocket[c]]) |-> inbox[pageSocket[c]][i].data]
    ELSE << >>

\* how often message m has reached page c, is on its way to it, or was lost
\* on its way to it
Copies(c, m) ==
    Count(pageMessages[c], m) + Count(PendingTo(c), m)
        + (IF <<c, m>> \in lost THEN 1 ELSE 0)

\* the messages the relay has handled, in that order
RelayedMessages == [i \in 1..Len(relayed) |-> relayed[i].message]

\* the last step ended a send whose insert had succeeded
SendCompleted == lastOp.op \in {"trimmed", "selectFailed", "deleteFailed"}

\* C14 as stated: when a page that has joined sends a message and the send
\* completes with a successful insert, the message gets to every connected
\* page and is in the table.  A message is emitted by the step that ends its
\* send or never, so when a page is connected at that step and nothing is
\* emitted, that page never receives the message.
C14_JoinedSendReachesAllAndIsStored ==
    SendCompleted =>
        /\ ConnectedPages # {} => lastOp.sent = {lastOp.message}
        /\ lastOp.message \in messages

\* C14 as amended: the send of a page that has joined, when it completes with
\* a successful insert, leaves the message in the table and emits it to the
\* relay exactly when the page's socket is connected at that moment; the
\* emitted message is on the wire until the relay handles it or the socket
\* ends; every page connected when the relay handles it, the sender's
\* included, receives it, has it on its wire or lost it with its socket.
C14_SendReachesThePagesConnected ==
    /\ SendCompleted =>
          /\ lastOp.connected = (lastOp.socket # 0)
          /\ lastOp.sent = (IF lastOp.connected THEN {lastOp.message} ELSE {})
          /\ lastOp.message \in messages
          /\ lastOp.connected =>
                \/ Count(outbox[lastOp.socket],
                         Packet("message:send", lastOp.message)) = 1
                \/ Count(RelayedMessages, lastOp.message) = 1
                \/ lastOp.socket \in closed
          /\ ~lastOp.connected =>
                /\ Count(RelayedMessages, lastOp.message) = 0
                /\ \A c \in Clients : Copies(c, lastOp.message) = 0
    /\ \A i \in 1..Len(relayed) :
          /\ \A c \in relayed[i].pages : Copies(c, relayed[i].message) >= 1
          /\ \E c \in relayed[i].pages : UserOf(c) = relayed[i].message.user_id

C14_Witness ==
    /\ SendCompleted
    /\ lastOp.connected
    /\ lastOp.message \in messages
    /\ Count(RelayedMessages, lastOp.message) = 1
    /\ \A c \in Clients : Count(pageMessages[c], lastOp.message) = 1

RECURSIVE IsSubsequence(_, _)
IsSubsequence(a, b) ==
    IF a = << >> THEN TRUE
    ELSE IF b = << >> THEN FALSE
    ELSE IF Head(a) = Head(b) THEN IsSubsequence(Tail(a), Tail(b))
    ELSE IsSubsequence(a, Tail(b))

\* C19: the messages a page has received, followed by those on its wire, come
\* in the order in which the relay handled them; so all pages see the
\* messages in one common order, that of the relay.
C19_ReceivedInRelayOrder ==
    \A c \in Clients :
        IsSubsequence(pageMessages[c] \o PendingTo(c), RelayedMessages)

C19_Witness ==
    /\ Len(relayed) >= 2
    /\ relayed[1].message.id > relayed[2].message.id
    /\ \A c \in Clients : pageMessages[c] = RelayedMessages

\* C20: a packet lost on its way to one page (its connection broke) stays
\* lost to that page and to no other: every page connected when the relay
\* handled a message has exactly one copy of it (received, on its wire, or
\* lost), a page not connected then never gets one, and the relay answers a
\* message with the one broadcast and nothing else.
C20_LostDeliveryIsIsolatedAndFinal ==
    /\ \A i \in 1..Len(relayed) :
          /\ \A c \in relayed[i].pages : Copies(c, relayed[i].message) = 1
          /\ \A c \in Clients \ relayed[i].pages :
                Copies(c, relayed[i].message) = 0
    /\ dispatched.ev = "message:send" =>
          /\ Len(dispatched.out) = 1
          /\ dispatched.out[1].ev = "message:received"

C20_Witness ==
    \E c, d \in Clients, i \in 1..Len(relayed) :
        /\ <<c, relayed[i].message>> \in lost
        /\ Connected(c)
        /\ PendingTo(c) = << >>
        /\ Count(pageMessages[d], relayed[i].message) = 1

(***************************************************************************)
(* Properties of the expiry, checked under SpecExpiry.                     *)
(***************************************************************************)
\* the step taken last ran the expiry: an insert fired the trigger, or one of
\* the two functions was called
ExpiryRan == lastOp.op \in {"inserted", "delete_old_messages", "cleanup_messages"}

\* C11: right after the expiry has run (the trigger fired by any user's
\* insert, delete_old_messages or cleanup_messages) the table, which every
\* read returns rows of, holds no row whose created_at is more than 3 days
\* before the current time, whoever wrote the row.
C11_NoExpiredRowAfterExpiry ==
    ExpiryRan => OlderThanTTL(messages, now) = {}

(***************************************************************************)
(* Properties of the initial load, checked under SpecLoad.                 *)
(***************************************************************************)
IsAscending(list) ==
    \A i \in 1..Len(list) - 1 : list[i].created_at <= list[i + 1].created_at

\* C16: the initial load returns the most recent min(100, n) of the n rows of
\* the table, in ascending created_at order, for every n, n > 100 included.
C16_LoadReturnsTheMostRecent ==
    lastOp.op = "loaded" =>
        LET n == Cardinality(lastOp.read)
            got == { lastOp.data[i] : i \in 1..Len(lastOp.data) }
        IN /\ Len(lastOp.data) = Min(HistoryLimit, n)
           /\ IsAscending(lastOp.data)
           /\ MostRecent(got, lastOp.read, Min(HistoryLimit, n))
           /\ pageMessages[lastOp.client] = lastOp.data

(***************************************************************************)
(* Properties of the provider, checked under SpecAuth.                     *)
(***************************************************************************)
\* signIn or signUp has just come back from its approval check
ApprovalChecked ==
    lastAuth.op \in {"signIn", "signUp"} /\ lastAuth.at = "approval"

\* C17: signIn and signUp call the credential operation (signInWithPassword,
\* auth.signUp) only for an email whose approval check returned ok, and the
\* check returns ok for no empty email and, when it has asked the table, for
\* no email off the approved list; a call whose check did not return ok (and
\* a signIn without email) returns a non-null error and leaves the session
\* as it was.
C17_NoCredentialCallUnlessApproved ==
    /\ ApprovalChecked =>
          /\ lastAuth.called <=> lastAuth.approved.ok
          /\ lastAuth.approved.ok => lastAuth.email # ""
          /\ (lastAuth.approved.ok /\ lastAuth.looked) =>
                ToLowerCase(lastAuth.email) \in approvedEmails
          /\ ~lastAuth.approved.ok =>
                /\ lastAuth.returned
                /\ lastAuth.error # Null
                /\ session = lastAuth.had
    /\ (lastAuth.op = "signIn" /\ lastAuth.at = "return" /\ lastAuth.email = "") =>
          lastAuth.error # Null

\* signIn has turned down an email that is not on the approved list, while the
\* auth client holds the session of an earlier visit
C17_Witness ==
    /\ ApprovalChecked
    /\ lastAuth.op = "signIn"
    /\ lastAuth.email = "bob@x"
    /\ ~lastAuth.approved.ok
    /\ ~lastAuth.called
    /\ session # NoSession

\* C18: whatever the interleaving of session restore, auth-change events and
\* background profile fetches, the provider exposes a non-null user only for
\* a session whose email is on the approved list; in particular a restored
\* session whose email is not approved never yields a non-null user.
C18_UserOnlyForApprovedSession ==
    (mounted /\ authState.user # NullUser) => authState.user.id \in approvedEmails

(***************************************************************************)
(* Properties of the relay with listening pages, checked under SpecFanout. *)
(***************************************************************************)
\* how often the relay has handled message m while page c was connected
Handled(c, m) ==
    Cardinality({ i \in 1..Len(relayed) :
                    relayed[i].message = m /\ c \in relayed[i].pages })

\* C21: the message handler changes neither the registry nor the table and
\* does not deduplicate: every message event, one carrying an id handled
\* before included, produces one message:received to every connection, so
\* a page has received or has on its wire as many copies of a message as
\* the relay has handled events carrying it while the page was connected.
C21_MessageHandlerKeepsNoState ==
    /\ dispatched.ev = "message:send" =>
          /\ connectedUsers = dispatched.registry
          /\ dispatched.out =
                << Emission("message:received", attached, dispatched.data) >>
    /\ messages = {}
    /\ \A c \in Clients, m \in ChatMessage : Copies(c, m) = Handled(c, m)

C21_Witness ==
    /\ Len(relayed) = 2
    /\ relayed[1].message.id = relayed[2].message.id
    /\ relayed[1].pages = Clients
    /\ connectedUsers # << >>
    /\ \A c \in Clients : Count(pageMessages[c], relayed[1].message) = 2

(***************************************************************************)
(* Properties of the profile editor and the presence registry, checked     *)
(* under SpecProfile.                                                      *)
(***************************************************************************)
\* the registry as the event the relay handled last has left it
RegistryAfter ==
    CASE dispatched.ev = "user:join" ->
             MapSet(dispatched.registry, dispatched.from, dispatched.data)
      [] dispatched.ev = "disconnect" ->
             MapDelete(dispatched.registry, dispatched.from)
      [] OTHER -> dispatched.registry

\* C22: a change of name or picture in the profile editor leaves the registry
\* as the relay's last handler left it, and a user:join the page sends
\* afterwards (here: when the tab becomes visible) carries the name and the
\* picture of the saved profile.
C22_NextJoinCarriesSavedProfile ==
    /\ connectedUsers = RegistryAfter
    /\ lastOp.op = "join" =>
          /\ lastOp.data.userName = lastOp.profile.name
          /\ lastOp.data.userAvatar = lastOp.profile.profile_picture_url

(***************************************************************************)
(* Properties of concurrent trims, checked under SpecStore.                *)
(***************************************************************************)
\* C23: the trim is idempotent: a trim that runs right after another trim
\* has run, with no insert (and no other step) in between, deletes nothing;
\* and a trim whose steps interleave with those of another deletes no more
\* rows than the table held in excess of 50 when it deleted.
C23_TrimIsIdempotent ==
    lastOp.op = "trimmed" =>
        /\ lastOp.rerun => lastOp.deleted = {}
        /\ lastOp.deleted # {} =>
              Cardinality(lastOp.deleted) <= Cardinality(lastOp.read) - MaxMessages

\* C24: the trim deletes only rows outside the 50 most recent of the table
\* at the moment of the deletion: it never leaves the table with fewer than
\* 50 rows and every row it deletes has at least 50 rows as recent or more
\* recent beside it.
C24_TrimDeletesOnlyBeyondFifty ==
    lastOp.op = "trimmed" =>
        /\ lastOp.deleted # {} => Cardinality(messages) >= MaxMessages
        /\ \A r \in lastOp.deleted :
              Cardinality({ q \in lastOp.read \ {r} :
                              q.created_at >= r.created_at }) >= MaxMessages

(***************************************************************************)
(* Properties of a page's message list under its initial load and the      *)
(* events it receives, checked under SpecFeed.                             *)
(***************************************************************************)
\* C25: once its initial load has resolved, a page's message list is in
\* ascending created_at order, after any sequence of received events
\* (whatever the order among equal timestamps).
C25_ListAscendingByCreatedAt ==
    \A c \in Clients \ loading : IsAscending(pageMessages[c])

\* C27: a page's message list never holds two entries with the same id.
C27_NoDuplicateIds ==
    \A c \in Clients :
        \A i, j \in 1..Len(pageMessages[c]) :
            i # j => pageMessages[c][i].id # pageMessages[c][j].id

\* C28: a message a page has received through the relay stays in its list:
\* every message the relay handled while the page was connected is in the
\* page's list or still on its wire.
C28_ReceivedMessageStays ==
    \A c \in Clients : \A i \in 1..Len(relayed) :
        c \in relayed[i].pages =>
            Count(pageMessages[c], relayed[i].message)
                + Count(PendingTo(c), relayed[i].message) >= 1

\* C26: after signOut has set the user to null, a background profile fetch
\* that was started before and resolves next leaves the user null.
C26_ProfileFetchKeepsSignedOut ==
    (lastAuth.op = "profile" /\ lastAuth.after = "signOut"
        /\ lastAuth.was = NullUser) =>
        authState.user = NullUser

(***************************************************************************)
(* Properties of the session restore, checked under SpecAuthLive.          *)
(***************************************************************************)
\* C29: from the initial state (loading = true), loading eventually becomes
\* false on every path of the session restore, a session lookup that never
\* returns included, as long as the provider stays mounted.
C29_LoadingEventuallyFalse == <>(~authState.loading \/ ~mounted)

C29_Witness ==
    /\ lastAuth.op = "safetyTimeout"
    /\ mounted
    /\ ~authState.loading
    /\ At("initAuth", "getSession") # {}

(***************************************************************************)
(* Properties of the chat page during the session restore, checked under   *)
(* SpecAuth.                                                               *)
(***************************************************************************)
\* initAuth has not ended yet
Restoring == \E t \in tasks : t.op = "initAuth"

\* C30: while the session of an approved email is being restored (and
\* nobody has signed in, up or out), the chat page does not redirect to
\* /login, however long the restore takes.
C30_NoRedirectWhileRestoring ==
    (mounted /\ Restoring /\ session \in approvedEmails /\ authCalls = 0) =>
        ChatRoomPageRenders # "/login"

(***************************************************************************)
(* Properties of the registry's participants, checked under Spec.          *)
(***************************************************************************)
\* the participant ids the relay has just announced as having left
LeftAnnounced ==
    { dispatched.out[i].data.userId :
        i \in { j \in 1..Len(dispatched.out) : dispatched.out[j].ev = "user:left" } }

\* the participant ids of the registry's entries
Registered == { connectedUsers[i].value.userId : i \in 1..Len(connectedUsers) }

\* C31: whenever the relay broadcasts left for a participant, the registry
\* holds no remaining entry of that participant: a participant joined from
\* two connections is not announced as having left while one of them is
\* still registered.
C31_LeftOnlyWhenNoEntryRemains == LeftAnnounced \cap Registered = {}

(***************************************************************************)
(* Properties of a page's joins, checked under SpecChat.                   *)
(***************************************************************************)
\* the user:join packets socket's page has emitted and the relay not yet handled
JoinsWaiting(socket) ==
    Cardinality({ i \in 1..Len(outbox[socket]) : outbox[socket][i].ev = "user:join" })

\* C32: when the transport of a page has connected or reconnected, the page
\* has emitted user:join exactly once for the new connection (so that the
\* relay registers it and broadcasts one joined event).
C32_OneJoinPerConnection ==
    (dispatched.ev = "connection" /\ dispatched.from \in PageSockets) =>
        JoinsWaiting(dispatched.from) = 1

(***************************************************************************)
(* Properties of signUp's profile creation, checked under SpecAuth.        *)
(***************************************************************************)
\* an upsert of signUp has just resolved
UpsertResolved == lastAuth.op = "signUp" /\ lastAuth.at = "upsert"

\* signUp was called once and has no call in flight, or was called again
SignUpEnded == authCalls <= 1 => \A t \in tasks : t.op # "signUp"

\* the call of signUp for email stands at the await at, in attempt i
SignUpAt(email, at, i) ==
    /\ \E t \in At("signUp", at) : t.email = email /\ t.i = i
    /\ authCalls <= 1 => \A t \in tasks : t.op = "signUp" => (t.at = at /\ t.i = i)

C34_DelayedUnlessRowFound ==
    /\ \A t \in At("signUp", "exists") : t.i = MaxRetries - 1
    /\ (lastAuth.op = "signUp" /\ lastAuth.at = "exists") =>
          /\ lastAuth.attempts = MaxRetries
          /\ lastAuth.returned /\ SignUpEnded
          /\ lastAuth.error = Null <=> lastAuth.found
          /\ ~lastAuth.found =>
                lastAuth.error = "Signup succeeded, but profile creation is delayed."

\* five foreign-key violations, and the lookup finds the row
C34_Witness ==
    /\ lastAuth.op = "signUp" /\ lastAuth.at = "exists"
    /\ lastAuth.attempts = MaxRetries
    /\ lastAuth.found
    /\ lastAuth.error = Null

(***************************************************************************)
(* Properties of verifyApprovedEmail, checked under SpecVerify.            *)
(***************************************************************************)
\* a call of verifyApprovedEmail has just returned
VerifyReturned == lastAuth.op = "verify" /\ lastAuth.at = "return"

\* a call of verifyApprovedEmail has just gone to the table
VerifyAsked == lastAuth.op = "verify" /\ lastAuth.at = "call"

\* the Map m holds v for key k
Holds(m, k, v) == MapHas(m, k) /\ MapGet(m, k) = v

\* C35 (amended): the Map is keyed by the lower-cased email and holds only
\* definite answers: a lookup that ended in a store error leaves the Map as
\* it was, a definite answer is stored under the lower-cased email, a call
\* goes to the table only when the Map has no answer for its email, and a
\* call that finds one returns the ok value the Map holds, without a lookup.
C35_CacheHoldsOnlyDefiniteAnswers ==
    /\ MapKeys(CacheOf("first")) \subseteq Addresses
    /\ VerifyAsked =>
          /\ ToLowerCase(lastAuth.email) # ""
          /\ ~MapHas(CacheOf("first"), ToLowerCase(lastAuth.email))
    /\ VerifyReturned =>
          LET normalized == ToLowerCase(lastAuth.email)
          IN /\ lastAuth.failed =>
                   /\ lastAuth.cacheNow = lastAuth.cacheWas
                   /\ ~lastAuth.approved.ok
             /\ (lastAuth.looked /\ ~lastAuth.failed) =>
                   /\ Holds(lastAuth.cacheNow, normalized, lastAuth.approved.ok)
                   /\ lastAuth.approved.ok = (normalized \in approvedEmails)
                   /\ \A k \in MapKeys(lastAuth.cacheWas) \ {normalized} :
                         Holds(lastAuth.cacheNow, k, MapGet(lastAuth.cacheWas, k))
             /\ ~lastAuth.looked =>
                   /\ lastAuth.cacheNow = lastAuth.cacheWas
                   /\ normalized # "" =>
                         Holds(lastAuth.cacheWas, normalized, lastAuth.approved.ok)

\* a call with the email in mixed case is answered from the Map, which holds
\* the definite answer of an earlier lookup
C35_Witness ==
    /\ VerifyReturned
    /\ ~lastAuth.looked
    /\ lastAuth.email = "Ann@x"
    /\ lastAuth.approved.ok

\* C35 as stated: after a definite answer, later calls on the same Map return
\* the same ok value: the answer the Map holds for an email is never replaced
\* by a different one.
C35_CachedAnswerStays ==
    VerifyReturned =>
        \A k \in MapKeys(lastAuth.cacheWas) :
            Holds(lastAuth.cacheNow, k, MapGet(lastAuth.cacheWas, k))

=============================================================================
